---- MODULE Spec2Model ----
(***************************************************************************)
(* Role-scoped query execution of n8n-nodes-pgvector-extended.             *)
(*                                                                         *)
(* Spec     : executeWithRole / executeCustomQuery (utils/rlsHelper.ts)    *)
(*            driven by its two callers, the agent tool function           *)
(*            (PostgresVectorStoreTool.supplyData.func, one pg Client per  *)
(*            call) and VectorStorePGVectorExtended.execute (a pg Pool     *)
(*            handle), against Postgres sessions.                          *)
(* SpecWrap : the recording wrapper createWrappedToolFunc                  *)
(*            (utils/Helper.ts).                                           *)
(*                                                                         *)
(* JavaScript strings are sequences of one-character strings.              *)
(***************************************************************************)
EXTENDS Integers, Sequences, FiniteSets, TLC

VARIABLES
    pc,        \* Spec: position of each invocation in its caller / in executeWithRole
    caller,    \* Spec: "tool" (supplyData.func) or "node" (VectorStorePGVectorExtended.execute)
    mode,      \* Spec: the node parameter 'operation' of the invocation
    role,      \* Spec: the role handed to executeWithRole (context.role)
    err,       \* Spec: the error caught and not yet rethrown
    opVal,     \* Spec: the value the operation produced
    opSess,    \* Spec: the session the running operation is checked out on
    ewrRes,    \* Spec: what executeWithRole's caller observes
    toolRes,   \* Spec: what the caller of the invocation observes
    trace,     \* Spec: history of the database I/O issued by the current invocation
    sess,      \* Spec: state of each Postgres session
    poolCur,   \* Spec: the session the invocation's pg Pool hands out next
    callNo,    \* Spec: how many invocations the slot has started
    prev,      \* Spec: history: how the slot's previous invocation went
    prep,      \* Spec: the custom query an invocation prepared
    wcall,     \* SpecWrap: how many wrapped calls have started
    debugMode, \* SpecWrap: the logger's debug mode
    wpc,       \* SpecWrap: position of the wrapped call
    windex,    \* SpecWrap: the index addInputData returned to the call
    wresp,     \* SpecWrap: what the wrapped function returned or threw
    werr,      \* SpecWrap: the error caught by the wrapper's catch block
    wres,      \* SpecWrap: what the caller of the wrapped function observes
    runIndex,  \* SpecWrap: the host's next input index
    inputs,    \* SpecWrap: the host's input records
    outputs,   \* SpecWrap: the host's output records
    qvalue,    \* SpecQuote: the argument of the quoteIdentifier call
    qresult,   \* SpecQuote: what the quoteIdentifier call returned or threw
    rvalue,    \* SpecValidRole: the argument of the ensureValidRole call
    rresult,   \* SpecValidRole: what the ensureValidRole call returned or threw
    cmessage,  \* SpecCritical: the message of the error last handed to isCriticalError
    cresult,   \* SpecCritical: what that call returned
    ccalls,    \* SpecCritical: how many calls of isCriticalError have been made
    lastIndex, \* SpecCritical: the lastIndex of each pattern of the catalogue
    gnode,     \* SpecGetRole: the 'rlsRole' node parameter of the getRLSRole call
    gcred,     \* SpecGetRole: the credentials role of the getRLSRole call
    gresult    \* SpecGetRole: what the getRLSRole call returned

roleVars == <<pc, caller, mode, role, err, opVal, opSess, ewrRes, toolRes, trace, sess,
             poolCur, callNo, prev, prep>>
wrapVars == <<wcall, debugMode, wpc, windex, wresp, werr, wres, runIndex, inputs, outputs>>
pureVars == <<qvalue, qresult, rvalue, rresult, cmessage, cresult, ccalls, lastIndex,
              gnode, gcred, gresult>>
vars == <<pc, caller, mode, role, err, opVal, opSess, ewrRes, toolRes, trace, sess,
          poolCur, callNo, prev, prep,
          wcall, debugMode, wpc, windex, wresp, werr, wres, runIndex, inputs, outputs,
          qvalue, qresult, rvalue, rresult, cmessage, cresult, ccalls, lastIndex,
          gnode, gcred, gresult>>

(***************************************************************************)
(* Strings                                                                 *)
(***************************************************************************)
Lower == {"a","b","c","d","e","f","g","h","i","j","k","l","m",
          "n","o","p","q","r","s","t","u","v","w","x","y","z"}
Upper == {"A","B","C","D","E","F","G","H","I","J","K","L","M",
          "N","O","P","Q","R","S","T","U","V","W","X","Y","Z"}
Digit == {"0","1","2","3","4","5","6","7","8","9"}
Space == {" ", "\t", "\n"}

\* JavaScript undefined, and the login role of a session: no string equals them
Undefined == <<"undefined">>
Login     == <<"login">>

\* /^[a-zA-Z_][a-zA-Z0-9_]*$/.test(s)
IdentRegex(s) ==
    /\ Len(s) >= 1
    /\ s[1] \in Lower \cup Upper \cup {"_"}
    /\ \A k \in 2..Len(s) : s[k] \in Lower \cup Upper \cup Digit \cup {"_"}

\* String.prototype.trim
RECURSIVE TrimLeft(_)
TrimLeft(s) == IF s # <<>> /\ Head(s) \in Space THEN TrimLeft(Tail(s)) ELSE s
RECURSIVE TrimRight(_)
TrimRight(s) ==
    IF s # <<>> /\ s[Len(s)] \in Space THEN TrimRight(SubSeq(s, 1, Len(s) - 1)) ELSE s
Trim(s) == TrimRight(TrimLeft(s))

\* String.prototype.split('.')
RECURSIVE SplitDot(_)
SplitDot(s) ==
    IF \E k \in 1..Len(s) : s[k] = "."
    THEN LET k == CHOOSE j \in 1..Len(s) : s[j] = "." /\ \A h \in 1..(j - 1) : s[h] # "."
         IN  <<SubSeq(s, 1, k - 1)>> \o SplitDot(SubSeq(s, k + 1, Len(s)))
    ELSE <<s>>

\* faulty variant: the quoted parts are joined without the separator
RECURSIVE JoinQuotedNoDot(_)
JoinQuotedNoDot(parts) ==
    IF Len(parts) = 1 THEN <<"\"">> \o parts[1] \o <<"\"">>
    ELSE <<"\"">> \o parts[1] \o <<"\"">> \o JoinQuotedNoDot(Tail(parts))

\* Array.prototype.join('.') of the parts, each wrapped in double quotes
RECURSIVE JoinQuoted(_)
JoinQuoted(parts) ==
    IF Len(parts) = 1 THEN <<"\"">> \o parts[1] \o <<"\"">>
    ELSE <<"\"">> \o parts[1] \o <<"\"", ".">> \o JoinQuoted(Tail(parts))

(***************************************************************************)
(* Custom query preparation (PostgresVectorStoreTool.execute, customQuery) *)
(***************************************************************************)

\* faulty variant: the token is used as a pattern without escaping
EscapeRegExpNone(s) == s
\* vectorPlaceholder.replace(/[.*+?^${}()|[\]\\]/g, '\\$&')
RECURSIVE EscapeRegExp(_)
EscapeRegExp(s) ==
    IF s = <<>> THEN <<>>
    ELSE (IF Head(s) \in {".", "*", "+", "?", "^", "$", "{", "}", "(", ")", "|", "[", "]", "\\"}
          THEN <<"\\", Head(s)>> ELSE <<Head(s)>>)
         \o EscapeRegExp(Tail(s))

\* new RegExp(source, 'g'): the atoms of the pattern. A backslash makes the next
\* character a literal, an unescaped '.' matches any character but a line
\* terminator, every other character stands for itself
RECURSIVE CompileRegExp(_)
CompileRegExp(source) ==
    IF source = <<>> THEN <<>>
    ELSE IF Head(source) = "\\" /\ Len(source) >= 2
         THEN <<[any |-> FALSE, c |-> source[2]]>> \o CompileRegExp(Tail(Tail(source)))
         ELSE IF Head(source) = "."
              THEN <<[any |-> TRUE, c |-> "."]>> \o CompileRegExp(Tail(source))
              ELSE <<[any |-> FALSE, c |-> Head(source)]>> \o CompileRegExp(Tail(source))

AtomMatches(atom, c) == IF atom.any THEN c # "\n" ELSE atom.c = c
\* the pattern matches s at position k
MatchesAt(atoms, s, k) ==
    /\ k + Len(atoms) - 1 <= Len(s)
    /\ \A h \in 1..Len(atoms) : AtomMatches(atoms[h], s[k + h - 1])

\* String(n) of a positive integer
DigitSeq == <<"0", "1", "2", "3", "4", "5", "6", "7", "8", "9">>
RECURSIVE ToDecimal(_)
ToDecimal(n) ==
    IF n < 10 THEN <<DigitSeq[n + 1]>> ELSE ToDecimal(n \div 10) \o <<DigitSeq[(n % 10) + 1]>>

\* sqlQuery.replace(placeholderRegex, () => { placeholderCount += 1; return `$${placeholderCount}` })
\* from position k on, count matches replaced so far
RECURSIVE ReplaceFrom(_, _, _, _)
ReplaceFrom(s, atoms, k, count) ==
    IF k > Len(s) THEN [sql |-> <<>>, count |-> count]
    ELSE IF atoms # <<>> /\ MatchesAt(atoms, s, k)
         THEN LET rest == ReplaceFrom(s, atoms, k + Len(atoms), count + 1)
              IN  [sql |-> <<"$">> \o ToDecimal(count + 1) \o rest.sql, count |-> rest.count]
         ELSE LET rest == ReplaceFrom(s, atoms, k + 1, count)
              IN  [sql |-> <<s[k]>> \o rest.sql, count |-> rest.count]

\* the embedding resolveEmbedding() returns
Embedding == "embedding"
\* parametrizedSql, placeholderCount and params = Array(placeholderCount).fill(embedding)
PrepareCustomQuery(sqlQuery, vectorPlaceholder) ==
    LET placeholderRegex == CompileRegExp(EscapeRegExp(vectorPlaceholder))
        r == ReplaceFrom(sqlQuery, placeholderRegex, 1, 0)
    IN  [sql |-> r.sql, count |-> r.count, params |-> [k \in 1..r.count |-> Embedding]]

\* faulty variant: only the empty token is refused
BlankPlaceholderEmptyOnly(vectorPlaceholder) == vectorPlaceholder = <<>>
\* !vectorPlaceholder || vectorPlaceholder.trim() === ''
BlankPlaceholder(vectorPlaceholder) == vectorPlaceholder = <<>> \/ Trim(vectorPlaceholder) = <<>>

(***************************************************************************)
(* The catalogue of critical errors (utils/Helper.ts)                      *)
(***************************************************************************)
\* the /i flag: characters are compared case-insensitively
ToLower(c) ==
    LET UpperSeq == <<"A","B","C","D","E","F","G","H","I","J","K","L","M",
                      "N","O","P","Q","R","S","T","U","V","W","X","Y","Z">>
        LowerSeq == <<"a","b","c","d","e","f","g","h","i","j","k","l","m",
                      "n","o","p","q","r","s","t","u","v","w","x","y","z">>
    IN  IF c \in Upper THEN LowerSeq[CHOOSE k \in 1..26 : UpperSeq[k] = c] ELSE c
\* the literal p occurs in s at position k
OccursAt(s, p, k) ==
    /\ k >= 1
    /\ k + Len(p) - 1 <= Len(s)
    /\ \A h \in 1..Len(p) : (ToLower((s[k + h - 1])) = ToLower(p[h]))
\* '.' matches every character except a line terminator
NoNewline(s, from, to) == \A h \in from..to : s[h] # "\n"
\* pattern.test(s) for a pattern  lit1 .* lit2 .* ...  searched from position from
RECURSIVE TestFrom(_, _, _, _)
TestFrom(s, lits, from, anchored) ==
    IF lits = <<>> THEN TRUE
    ELSE \E k \in from..(Len(s) + 1) :
            /\ OccursAt(s, Head(lits), k)
            /\ anchored => NoNewline(s, from, k - 1)
            /\ TestFrom(s, Tail(lits), k + Len(Head(lits)), TRUE)

\* the catalogue; each pattern is the sequence of its literals, joined by .*
CRITICAL_ERROR_PATTERNS ==
    <<<<<<"r","e","l","a","t","i","o","n"," ">>, <<" ","d","o","e","s"," ","n","o","t"," ","e","x","i","s","t">>>>,
       <<<<"t","a","b","l","e"," ">>, <<" ","d","o","e","s"," ","n","o","t"," ","e","x","i","s","t">>>>,
       <<<<"c","o","l","u","m","n"," ">>, <<" ","d","o","e","s"," ","n","o","t"," ","e","x","i","s","t">>>>,
       <<<<"d","a","t","a","b","a","s","e"," ">>, <<" ","d","o","e","s"," ","n","o","t"," ","e","x","i","s","t">>>>,
       <<<<"p","e","r","m","i","s","s","i","o","n"," ","d","e","n","i","e","d">>>>,
       <<<<"a","u","t","h","e","n","t","i","c","a","t","i","o","n"," ","f","a","i","l","e","d">>>>,
       <<<<"p","a","s","s","w","o","r","d"," ","a","u","t","h","e","n","t","i","c","a","t","i","o","n"," ","f","a","i","l","e","d">>>>,
       <<<<"c","o","n","n","e","c","t","i","o","n"," ","r","e","f","u","s","e","d">>>>,
       <<<<"E","C","O","N","N","R","E","F","U","S","E","D">>>>,
       <<<<"E","N","O","T","F","O","U","N","D">>>>,
       <<<<"E","T","I","M","E","D","O","U","T">>>>,
       <<<<"n","o"," ","p","g","_","h","b","a",".","c","o","n","f"," ","e","n","t","r","y">>>>,
       <<<<"S","S","L">>, <<"r","e","q","u","i","r","e","d">>>>,
       <<<<"r","o","l","e"," ">>, <<" ","d","o","e","s"," ","n","o","t"," ","e","x","i","s","t">>>>,
       <<<<"I","n","v","a","l","i","d"," ","i","d","e","n","t","i","f","i","e","r">>>>>>

\* faulty variant: no error is critical
isCriticalErrorNever(message) == FALSE
\* isCriticalError on the error's message
isCriticalError(message) ==
    \E k \in 1..Len(CRITICAL_ERROR_PATTERNS) : (TestFrom(message, CRITICAL_ERROR_PATTERNS[k], 1, FALSE))

\* faulty variant: the patterns carry the global flag as well
PatternFlagsGlobal == {"i", "g"}
\* the flags of every pattern of the catalogue: /.../i
PatternFlags == {"i"}

\* the position after the match that starts at k: .* takes as much as it can
MatchEnd(s, lits, k) ==
    IF Len(lits) = 1 THEN k + Len(lits[1])
    ELSE LET ends == {j \in (k + Len(lits[1]))..Len(s) :
                         OccursAt(s, lits[2], j) /\ NoNewline(s, k + Len(lits[1]), j - 1)}
         IN  (CHOOSE j \in ends : \A h \in ends : h <= j) + Len(lits[2])
\* RegExp.prototype.test: a global pattern searches from its lastIndex and moves
\* it behind the match or back to 0; any other pattern searches from the start
\* and leaves lastIndex alone
RegExpTest(lits, s, last) ==
    LET global == "g" \in PatternFlags
        from == IF global THEN last + 1 ELSE 1
        starts == {k \in from..Len(s) :
                      /\ OccursAt(s, Head(lits), k)
                      /\ TestFrom(s, Tail(lits), k + Len(Head(lits)), TRUE)}
    IN  IF starts = {}
        THEN [found |-> FALSE, lastIndex |-> IF global THEN 0 ELSE last]
        ELSE [found |-> TRUE,
              lastIndex |-> IF global
                            THEN MatchEnd(s, lits, CHOOSE k \in starts : \A h \in starts : k <= h) - 1
                            ELSE last]
\* CRITICAL_ERROR_PATTERNS.some(pattern => pattern.test(message)) from pattern k on:
\* the result and the lastIndex of every pattern afterwards
RECURSIVE SomePatternFrom(_, _, _)
SomePatternFrom(k, message, last) ==
    IF k > Len(CRITICAL_ERROR_PATTERNS) THEN [result |-> FALSE, lastIndex |-> last]
    ELSE LET r == RegExpTest(CRITICAL_ERROR_PATTERNS[k], message, last[k])
             after == [last EXCEPT ![k] = r.lastIndex]
         IN  IF r.found THEN [result |-> TRUE, lastIndex |-> after]
             ELSE SomePatternFrom(k + 1, message, after)

\* messages handed to isCriticalError: every pattern of the catalogue with nothing,
\* a character or a line break between its literals, as written and in lower case,
\* alone and behind a prefix; and messages that come close to a pattern
LowerCase(s) == [k \in 1..Len(s) |-> ToLower(s[k])]
PatternInstance(lits, fill) ==
    IF Len(lits) = 1 THEN lits[1] ELSE lits[1] \o fill \o lits[2]
MessageInputs ==
    LET CriticalMessages ==
            UNION { { pre \o PatternInstance(CRITICAL_ERROR_PATTERNS[k], fill),
                      pre \o LowerCase(PatternInstance(CRITICAL_ERROR_PATTERNS[k], fill)) } :
                    k \in 1..Len(CRITICAL_ERROR_PATTERNS),
                    fill \in {<<>>, <<"x">>, <<"\n">>},
                    pre \in {<<>>, <<"e", ":", " ">>} }
        OrdinaryMessages ==
            { <<>>, <<"b","o","o","m">>,
              <<"r","e","l","a","t","i","o","n"," ","d","o","e","s"," ","n","o","t"," ","e","x","i","s","t">>,
              <<"p","e","r","m","i","s","s","i","o","n"," "," ","d","e","n","i","e","d">>,
              <<"I","n","v","a","l","i","d","_","i","d","e","n","t","i","f","i","e","r">>,
              <<"n","o"," ","p","g","_","h","b","a","x","c","o","n","f"," ","e","n","t","r","y">>,
              <<"E","C","O","N","N","R","E","S","E","T">> }
    IN  CriticalMessages \cup OrdinaryMessages
\* how many calls of isCriticalError are made
MaxCriticalCalls == 2

(***************************************************************************)
(* Validators                                                              *)
(***************************************************************************)
\* quoteIdentifier: [ok |-> TRUE, val |-> quoted] or [ok |-> FALSE, val |-> the
\* identifier (part) named in the "Invalid identifier" error]
quoteIdentifier(value) ==
    IF \E k \in 1..Len(value) : value[k] = "."
    THEN LET parts == SplitDot(value)
         IN  IF \E k \in 1..Len(parts) : ~IdentRegex(parts[k])
             THEN [ok |-> FALSE,
                   val |-> parts[CHOOSE k \in 1..Len(parts) :
                                   /\ ~IdentRegex(parts[k])
                                   /\ \A h \in 1..(k - 1) : IdentRegex(parts[h])]]
             ELSE [ok |-> TRUE, val |-> JoinQuoted(parts)]
    ELSE IF ~IdentRegex(value)
         THEN [ok |-> FALSE, val |-> value]
         ELSE [ok |-> TRUE, val |-> <<"\"">> \o value \o <<"\"">>]

\* faulty variant: the role is trimmed before it is tested and returned
ensureValidRoleTrimmed(r) == [ok |-> IdentRegex(Trim(r)), val |-> Trim(r)]
\* faulty variant: every role passes
ensureValidRoleLax(r) == [ok |-> TRUE, val |-> r]
\* ensureValidRole: the role passes unchanged or the call throws
ensureValidRole(r) == [ok |-> IdentRegex(r), val |-> r]

\* faulty variant: the credentials role wins over the node parameter
getRLSRoleCredentialsFirst(nodeRole, credentialsRole) ==
    IF credentialsRole # Undefined /\ credentialsRole # <<>> /\ Trim(credentialsRole) # <<>>
    THEN Trim(credentialsRole)
    ELSE IF nodeRole # Undefined /\ nodeRole # <<>> /\ Trim(nodeRole) # <<>>
         THEN Trim(nodeRole)
         ELSE Undefined
\* getRLSRole: node parameter first, then the credentials, each trimmed; the
\* node parameter may be missing (reading it throws) and the credentials role absent
getRLSRole(nodeRole, credentialsRole) ==
    IF nodeRole # Undefined /\ nodeRole # <<>> /\ Trim(nodeRole) # <<>>
    THEN Trim(nodeRole)
    ELSE IF credentialsRole # Undefined /\ credentialsRole # <<>> /\ Trim(credentialsRole) # <<>>
         THEN Trim(credentialsRole)
         ELSE Undefined

\* executeWithRole's test  role && role.trim() !== ''
HasRole(r) == r # Undefined /\ r # <<>> /\ Trim(r) # <<>>

(***************************************************************************)
(* Inputs                                                                  *)
(***************************************************************************)
\* invocation slots: each runs its invocations one after the other
Invs == {"i1", "i2"}
\* how many invocations one slot starts
MaxCalls == 2
\* how many calls of the wrapped tool function the host makes
MaxWrapCalls == 2
\* no index: addInputData has not returned
NoIndex == -1

\* values of the 'rlsRole' node parameter / credentials field
RoleInputs == { <<>>, <<" ">>, <<"r">>, <<"s">>, <<" ", "r", "2">>, <<"x", "\"", ";">> }
\* the identifiers, limits and metadata switch of the retrieval specification
RetrieveTables  == { <<"t">>, <<"s", ".", "t">>, <<"t", ";">>, <<"1", "t">> } \cup { <<"s", ".", "t", ".", "u">> }
RetrieveColumns == { <<>>, <<"c">>, <<"c", "\"">> }
TopKInputs == {-1, 0, 5, 1000, 1001}
\* the default of the 'topK' node parameter
DefaultTopK == 4
\* how many retrievals the slot starts
MaxRetrieveCalls == 1
\* characters of the custom SQL and of the placeholder token
PrepAlphabet == {"a", ".", "{"}
\* raw SQL texts that already hold positional references, as the default of the
\* sqlQuery property does ('... ORDER BY embedding <-> $1 LIMIT 10')
PositionalSql == {<<"$", "1">>, <<"$", "2", "{">>, <<"$", "1", "$", "1">>}
\* a placeholder token that is itself of the form $1
PositionalToken == <<"$", "1">>
MaxSqlLen == 3
MaxTokenLen == 2
SeqsUpTo(S, n) == UNION {[1..k -> S] : k \in 0..n}
MaxIdentLen == 5
IdentInputs == SeqsUpTo({"a", "B", "_", "1", ".", "\"", ";"}, MaxIdentLen)
\* the function under check (quoteIdentifier, ensureValidRole) has not been called
NotCalled == [ok |-> FALSE, val |-> <<"not called">>]
MaxRoleLen == 3
RoleNameInputs == SeqsUpTo({"r", "R", "_", "2", " ", "-", ".", "\"", ";"}, MaxRoleLen)
RoleParamInputs == SeqsUpTo({"r", "2", " ", "\t"}, MaxRoleLen) \cup {Undefined}
\* no custom query prepared
NoQuery == [sql |-> <<>>, count |-> 0, params |-> <<>>, raw |-> <<>>, token |-> <<>>]

(***************************************************************************)
(* Postgres sessions                                                       *)
(***************************************************************************)
\* "client": the invocation's pg Client; "pool1", "pool2": clients of its pg Pool
SessionNames == {"client", "pool1", "pool2"}

\* a session outside any transaction runs as its login role; by = the call whose
\* SET LOCAL ROLE is in effect (0: none)
Fresh == [txn |-> "idle", role |-> Login, by |-> 0]

\* BEGIN
DbBegin(st, ok) == IF ok /\ st.txn = "idle" THEN [st EXCEPT !.txn = "open"] ELSE st
\* SET LOCAL ROLE "<r>": lasts until the end of the current transaction, no effect
\* outside one; a failed statement aborts the open transaction
DbSetLocalRole(st, ok, r, n) ==
    IF st.txn = "open"
    THEN IF ok THEN [st EXCEPT !.role = r, !.by = n] ELSE [st EXCEPT !.txn = "aborted"]
    ELSE st
\* the operation's query
DbQuery(st, ok) == IF ~ok /\ st.txn = "open" THEN [st EXCEPT !.txn = "aborted"] ELSE st
\* COMMIT and ROLLBACK end the transaction, and with it SET LOCAL; one that is
\* reported as failed (commit-time error, dropped connection) ended it too
DbEndTxn(st) == Fresh
\* in an aborted transaction every statement but COMMIT/ROLLBACK fails
CanSucceed(st) == st.txn # "aborted"

(***************************************************************************)
(* The handle given to executeWithRole                                     *)
(***************************************************************************)
\* faulty variant: one client object shared by all invocations
ClientShared(i) == "i1"
\* whose connections an invocation uses: func and execute construct their own
\* (const client = new PgClient(...), const pool = new PgPool(...)), a host keeps its own
ClientOf(i) == i

Handle(i) == IF caller[i] \in {"node", "ptool", "exec"} THEN poolCur[i] ELSE "client"
\* Pool.query releases a client whose statement failed with the error: the pool
\* destroys it and the next statement gets another client
Destroyed(i, ok) == caller[i] \in {"node", "ptool", "exec"} /\ ~ok

Ev(stmt, s, ok, r, st) ==
    [stmt |-> stmt, sess |-> s, ok |-> ok, role |-> r, as |-> st.role, by |-> st.by,
     txn |-> st.txn]

\* client.query(stmt) on the handle: st2 is the session after the statement
Issue(i, stmt, ok, r, st2) ==
    LET s == Handle(i) IN
    /\ trace' = [trace EXCEPT ![i] = Append(@, Ev(stmt, s, ok, r, sess[ClientOf(i)][s]))]
    /\ sess' = [sess EXCEPT ![ClientOf(i)][s] = IF Destroyed(i, ok) THEN Fresh ELSE st2]
    /\ poolCur' = [poolCur EXCEPT ![i] = IF ~Destroyed(i, ok) THEN @
                                         ELSE IF @ = "pool1" THEN "pool2" ELSE "pool1"]

\* where executeWithRole's caller continues
AfterEwr(i, ok) ==
    IF caller[i] = "tool" THEN (IF ok THEN "t_return" ELSE "t_catch")
    ELSE IF caller[i] = "node" THEN "n_finally"
    ELSE IF caller[i] = "ptool" THEN "p_finally"
    ELSE IF caller[i] = "exec" THEN "x_finally"
    ELSE "done"

(***************************************************************************)
(* executeWithRole (utils/rlsHelper.ts)                                    *)
(***************************************************************************)

\* faulty variant: the catch block commits instead of rolling back
CatchStatementCommit == "COMMIT"
\* the statement the catch block issues
CatchStatement == "ROLLBACK"
\* faulty variant: the catch block never rolls back
RollbackNever(r) == FALSE
\* faulty variant: the catch block rolls back whether or not a role was given
RollbackAlways(r) == TRUE
\* the catch block's test before ROLLBACK
RollbackNeeded(r) == HasRole(r)
\* what the catch block throws: `await client.query('ROLLBACK'); throw error`
ThrownFromCatch(e, rollbackOk) == IF rollbackOk THEN e ELSE "eRollback"

\* faulty variant: a failed step is attempted again
RaiseRetry(i, e, to) ==
    /\ err' = err
    /\ pc' = pc
\* throw: the error is recorded and control passes to the enclosing catch
Raise(i, e, to) ==
    /\ err' = [err EXCEPT ![i] = e]
    /\ pc' = [pc EXCEPT ![i] = to]

\* await client.query('BEGIN')
ExecBegin(i) ==
    /\ pc[i] = "ewr"
    /\ HasRole(role[i])
    /\ \E ok \in BOOLEAN :
        /\ ok => CanSucceed(sess[ClientOf(i)][Handle(i)])
        /\ Issue(i, "BEGIN", ok, Undefined, DbBegin(sess[ClientOf(i)][Handle(i)], ok))
        /\ IF ok THEN pc' = [pc EXCEPT ![i] = "set"] /\ err' = err
                 ELSE Raise(i, "eBegin", "catch")
    /\ UNCHANGED <<caller, mode, role, opVal, opSess, ewrRes, toolRes, callNo, prev>>

\* await client.query(`SET LOCAL ROLE "${role}"`)
ExecSetRole(i) ==
    /\ pc[i] = "set"
    /\ \E ok \in BOOLEAN :
        /\ ok => CanSucceed(sess[ClientOf(i)][Handle(i)])
        /\ Issue(i, "SET", ok, role[i],
                 DbSetLocalRole(sess[ClientOf(i)][Handle(i)], ok, role[i], callNo[i]))
        /\ IF ok THEN pc' = [pc EXCEPT ![i] = "op"] /\ err' = err
                 ELSE Raise(i, "eSet", "catch")
    /\ UNCHANGED <<caller, mode, role, opVal, opSess, ewrRes, toolRes, callNo, prev>>


\* columnConfig.id || 'id'
OrDefault(value, default) == IF value = <<>> THEN default ELSE value
DefaultColumnNames ==
    [id |-> <<"i", "d">>, vector |-> <<"e", "m", "b", "e", "d", "d", "i", "n", "g">>,
     content |-> <<"t", "e", "x", "t">>, metadata |-> <<"m", "e", "t", "a", "d", "a", "t", "a">>]
\* the pgvector distance operators: cosine distance and Euclidean distance
CosineOperator == <<"<", "=", ">">>
L2Operator     == <<"<", "-", ">">>

\* includeMetadata ? `, ${quotedMetadata} AS metadata` : ''
MetadataSelect(includeMetadata, quotedMetadata) ==
    IF includeMetadata
    THEN <<",", " ">> \o quotedMetadata \o <<" ", "A", "S", " ", "m", "e", "t", "a", "d", "a", "t", "a">>
    ELSE <<>>

\* `SELECT ${quotedId} AS id, ${quotedContent} AS content${metadataSelect}
\*  FROM ${quotedTable} ORDER BY ${quotedVector} <operator> $1 LIMIT $2`
BuildSelect(quotedId, quotedContent, metadataSelect, quotedTable, quotedVector, operator) ==
    <<"S", "E", "L", "E", "C", "T", " ">> \o quotedId \o <<" ", "A", "S", " ", "i", "d", ",", " ">>
        \o quotedContent \o <<" ", "A", "S", " ", "c", "o", "n", "t", "e", "n", "t">>
        \o metadataSelect
        \o <<"\n", "F", "R", "O", "M", " ">> \o quotedTable
        \o <<"\n", "O", "R", "D", "E", "R", " ", "B", "Y", " ">> \o quotedVector
        \o <<" ">> \o operator \o <<" ", "$", "1", "\n", "L", "I", "M", "I", "T", " ", "$", "2">>

\* the node parameters of a retrieval, as the caller supplied them
Request(tableName, idCol, vectorCol, contentCol, metadataCol, includeMetadata, topK) ==
    [table |-> tableName, id |-> idCol, vector |-> vectorCol, content |-> contentCol,
     metadata |-> metadataCol, includeMetadata |-> includeMetadata, topK |-> topK]
\* tableName and the four column names with their defaults, in the order they are quoted
Identifiers(req) ==
    <<req.table, OrDefault(req.id, DefaultColumnNames.id), OrDefault(req.vector, DefaultColumnNames.vector),
      OrDefault(req.content, DefaultColumnNames.content), OrDefault(req.metadata, DefaultColumnNames.metadata)>>
\* the five quoteIdentifier calls, the SELECT text and its parameters; ok is FALSE
\* when a quoteIdentifier call throws, and invalid is the identifier its error names
BuildQuery(req, operator, embedding) ==
    LET ids == Identifiers(req)
        quoted == [k \in 1..5 |-> quoteIdentifier(ids[k])]
    IN  IF \A k \in 1..5 : quoted[k].ok
        THEN [ok |-> TRUE, req |-> req,
              sql |-> BuildSelect(quoted[2].val, quoted[4].val,
                                  MetadataSelect(req.includeMetadata, quoted[5].val),
                                  quoted[1].val, quoted[3].val, operator),
              params |-> <<embedding, req.topK>>]
        ELSE [ok |-> FALSE,
              invalid |-> quoted[CHOOSE k \in 1..5 :
                                   ~quoted[k].ok /\ \A h \in 1..(k - 1) : quoted[h].ok].val,
              sql |-> <<>>, params |-> <<>>]

\* the query the operation sends: executeCustomQuery's queryClient.query(sqlQuery),
\* executeCustomQuery(pool, parametrizedSql, undefined, params) of the pool tool,
\* the tool's queryClient.query(sql, [vectorString, topK]); a host's operation is its own
OperationQuery(i, q) ==
    IF caller[i] = "host" THEN [sql |-> <<>>, params |-> <<>>]
    ELSE IF caller[i] = "ptool" THEN [sql |-> prep[i].sql, params |-> prep[i].params]
    ELSE IF mode[i] = "customQuery" THEN [sql |-> q, params |-> <<>>]
    ELSE IF caller[i] \in {"tool", "exec"} THEN [sql |-> prep[i].sql, params |-> prep[i].params]
    ELSE [sql |-> <<"<", "=", ">", " ", "$", "1", "\n", "L", "I", "M", "I", "T", " ", "$", "2">>,
          params |-> <<"vectorString", "topK">>]

\* operation(client) is called at one of the positions `at`: its query is sent on
\* the handle
OpStartAt(i, at) ==
    /\ \/ pc[i] \in at
       \/ pc[i] = "ewr" /\ ~HasRole(role[i])
    /\ opSess' = [opSess EXCEPT ![i] = Handle(i)]
    /\ \E q \in { <<"S", " ", "$", "1">>, <<"S">> } :
          trace' = [trace EXCEPT ![i] =
                       Append(@, Ev("OP", Handle(i), TRUE, Undefined,
                                    sess[ClientOf(i)][Handle(i)]) @@ OperationQuery(i, q))]
    /\ pc' = [pc EXCEPT ![i] = "op_run"]
    /\ UNCHANGED <<caller, mode, role, err, opVal, ewrRes, toolRes, sess, poolCur, callNo, prev>>

\* faulty variant: the operation is started without waiting for SET LOCAL ROLE
ExecOpStartBeforeSetRole(i) == OpStartAt(i, {"set", "op"})
\* const result = await operation(client), after BEGIN and SET LOCAL ROLE
ExecOpStart(i) == OpStartAt(i, {"op"})

\* operation(client) settles; without a role its result is returned as it is
ExecOpEnd(i) ==
    /\ pc[i] = "op_run"
    /\ \E ok \in BOOLEAN, v \in {"rows1", "rows2"} :
        LET s == opSess[i] IN
        /\ ok => CanSucceed(sess[ClientOf(i)][s])
        /\ trace' = [trace EXCEPT ![i] = Append(@, Ev("OPEND", s, ok, Undefined, sess[ClientOf(i)][s]))]
        /\ sess' = [sess EXCEPT ![ClientOf(i)][s] =
                        IF Destroyed(i, ok) THEN Fresh ELSE DbQuery(@, ok)]
        /\ poolCur' = [poolCur EXCEPT ![i] = IF ~Destroyed(i, ok) THEN @
                                         ELSE IF @ = "pool1" THEN "pool2" ELSE "pool1"]
        /\ IF ok
           THEN /\ opVal' = [opVal EXCEPT ![i] = v]
                /\ err' = err
                /\ IF HasRole(role[i])
                   THEN /\ pc' = [pc EXCEPT ![i] = "commit"]
                        /\ ewrRes' = ewrRes
                   ELSE /\ pc' = [pc EXCEPT ![i] = AfterEwr(i, TRUE)]
                        /\ ewrRes' = [ewrRes EXCEPT ![i] = [kind |-> "value", v |-> v]]
           ELSE /\ Raise(i, "eOp", "catch")
                /\ UNCHANGED <<opVal, ewrRes>>
    /\ opSess' = [opSess EXCEPT ![i] = "none"]
    /\ UNCHANGED <<caller, mode, role, toolRes, callNo, prev>>

\* faulty variant: the result is returned without COMMIT
ExecCommitForgotten(i) ==
    /\ pc[i] = "commit"
    /\ ewrRes' = [ewrRes EXCEPT ![i] = [kind |-> "value", v |-> opVal[i]]]
    /\ pc' = [pc EXCEPT ![i] = AfterEwr(i, TRUE)]
    /\ UNCHANGED <<caller, mode, role, err, opVal, opSess, toolRes, trace, sess, poolCur,
                   callNo, prev>>

\* faulty variant: the result is returned whether or not COMMIT succeeded
ExecCommitIgnored(i) ==
    /\ pc[i] = "commit"
    /\ \E ok \in BOOLEAN :
        Issue(i, "COMMIT", ok, Undefined, DbEndTxn(sess[ClientOf(i)][Handle(i)]))
    /\ ewrRes' = [ewrRes EXCEPT ![i] = [kind |-> "value", v |-> opVal[i]]]
    /\ pc' = [pc EXCEPT ![i] = AfterEwr(i, TRUE)]
    /\ UNCHANGED <<caller, mode, role, err, opVal, opSess, toolRes, callNo, prev>>

\* await client.query('COMMIT'); return result
ExecCommit(i) ==
    /\ pc[i] = "commit"
    /\ \E ok \in BOOLEAN :
        /\ Issue(i, "COMMIT", ok, Undefined, DbEndTxn(sess[ClientOf(i)][Handle(i)]))
        /\ IF ok
           THEN /\ ewrRes' = [ewrRes EXCEPT ![i] = [kind |-> "value", v |-> opVal[i]]]
                /\ pc' = [pc EXCEPT ![i] = AfterEwr(i, TRUE)]
                /\ err' = err
           ELSE /\ Raise(i, "eCommit", "catch")
                /\ ewrRes' = ewrRes
    /\ UNCHANGED <<caller, mode, role, opVal, opSess, toolRes, callNo, prev>>

\* catch (error) { if (role && role.trim() !== '') await client.query('ROLLBACK'); throw error }
ExecCatch(i) ==
    /\ pc[i] = "catch"
    /\ IF RollbackNeeded(role[i])
       THEN \E ok \in BOOLEAN :
            /\ Issue(i, CatchStatement, ok, Undefined, DbEndTxn(sess[ClientOf(i)][Handle(i)]))
            /\ ewrRes' = [ewrRes EXCEPT ![i] =
                            [kind |-> "error", v |-> ThrownFromCatch(err[i], ok)]]
            /\ err' = [err EXCEPT ![i] = ThrownFromCatch(err[i], ok)]
       ELSE /\ ewrRes' = [ewrRes EXCEPT ![i] = [kind |-> "error", v |-> err[i]]]
            /\ UNCHANGED <<err, trace, sess, poolCur>>
    /\ pc' = [pc EXCEPT ![i] = AfterEwr(i, FALSE)]
    /\ UNCHANGED <<caller, mode, role, opVal, opSess, toolRes, callNo, prev>>

(***************************************************************************)
(* Callers of executeWithRole                                              *)
(***************************************************************************)

\* how the invocation that is ending went, kept for a connection that outlives it
Summary(i) ==
    IF callNo[i] = 0 \/ caller[i] # "host"
    THEN [caller |-> "none", roleSet |-> FALSE, failed |-> FALSE, rollbackFailed |-> FALSE]
    ELSE [caller |-> caller[i],
          roleSet |-> \E n \in 1..Len(trace[i]) : trace[i][n].stmt = "SET" /\ trace[i][n].ok,
          failed |-> ewrRes[i].kind = "error",
          rollbackFailed |-> \E n \in 1..Len(trace[i]) :
                                 trace[i][n].stmt = "ROLLBACK" /\ ~trace[i][n].ok]

Begin(i, c, m, r, to) ==
    /\ pc[i] \in {"idle", "done"}
    /\ callNo[i] < MaxCalls
    /\ callNo' = [callNo EXCEPT ![i] = @ + 1]
    /\ caller' = [caller EXCEPT ![i] = c]
    /\ mode' = [mode EXCEPT ![i] = m]
    /\ role' = [role EXCEPT ![i] = r]
    /\ pc' = [pc EXCEPT ![i] = to]
    /\ err' = [err EXCEPT ![i] = "none"]
    /\ opVal' = [opVal EXCEPT ![i] = "none"]
    /\ ewrRes' = [ewrRes EXCEPT ![i] = [kind |-> "none", v |-> "none"]]
    /\ toolRes' = [toolRes EXCEPT ![i] = ([kind |-> "none", v |-> "none", wrapped |-> FALSE])]
    /\ trace' = [trace EXCEPT ![i] = <<>>]
    /\ prev' = [prev EXCEPT ![i] = Summary(i)]
    /\ prep' = [prep EXCEPT ![i] = NoQuery]
    /\ UNCHANGED opSess

\* the agent calls the tool: func creates its own pg Client (new PgClient)
StartTool(i) ==
    /\ \E m \in {"retrieve", "retrieveRls", "customQuery"} :
            Begin(i, "tool", m, Undefined, "t_connect")
    /\ sess' = [sess EXCEPT ![ClientOf(i)]["client"] = Fresh]
    /\ UNCHANGED poolCur

\* VectorStorePGVectorExtended.execute: creates its own pg Pool (new PgPool)
StartNode(i) ==
    /\ \E m \in {"customQuery", "insert", "retrieve"} :
            Begin(i, "node", m, Undefined, "n_role")
    /\ sess' = [sess EXCEPT ![ClientOf(i)]["pool1"] = Fresh, ![i]["pool2"] = Fresh]
    /\ poolCur' = [poolCur EXCEPT ![i] = "pool1"]

\* a host calls executeWithRole({client, role}, operation) on the Client | PoolClient
\* it holds, which keeps its session from one call to the next
StartHost(i) ==
    /\ \E r \in { Undefined, <<>>, <<" ">>, <<"r">>, <<"r", "2">> } : Begin(i, "host", "direct", r, "ewr")
    /\ UNCHANGED <<sess, poolCur>>

\* await client.connect()
ToolConnect(i) ==
    /\ pc[i] = "t_connect"
    /\ \E ok \in BOOLEAN :
        /\ trace' = [trace EXCEPT ![i] =
                        Append(@, Ev("CONNECT", "client", ok, Undefined, sess[ClientOf(i)]["client"]))]
        /\ IF ok THEN pc' = [pc EXCEPT ![i] = "t_query"] /\ err' = err
                 ELSE Raise(i, "eConnect", "t_catch")
    /\ UNCHANGED <<caller, mode, role, opVal, opSess, ewrRes, toolRes, sess, poolCur, callNo, prev>>

\* if (!query) throw ...
ToolCheckQuery(i) ==
    /\ pc[i] = "t_query"
    /\ \E q \in { <<>>, <<"q">> } :
        IF q = <<>> THEN Raise(i, "eQueryMissing", "t_catch")
                    ELSE pc' = [pc EXCEPT ![i] = "t_embed"] /\ err' = err
    /\ UNCHANGED <<caller, mode, role, opVal, opSess, ewrRes, toolRes, trace, sess,
                   poolCur, callNo, prev>>

\* faulty variant: the result of embedQuery is used without the Array.isArray check
ToolEmbedUnchecked(i) ==
    /\ pc[i] = "t_embed"
    /\ \E out \in {"vector", "notArray", "throws"} :
        /\ trace' = [trace EXCEPT ![i] =
                        Append(@, Ev("EMBED", "none", out # "throws", Undefined, Fresh))]
        /\ err' = [err EXCEPT ![i] = IF out = "vector" THEN @
                                      ELSE IF out = "throws" THEN "eEmbed" ELSE "eNotArray"]
        /\ pc' = [pc EXCEPT ![i] = IF out = "throws" THEN "t_catch" ELSE "t_build"]
    /\ UNCHANGED <<caller, mode, role, opVal, opSess, ewrRes, toolRes, sess, poolCur, callNo, prev>>

\* queryVector = await embeddingModel.embedQuery(query); Array.isArray check
ToolEmbed(i) ==
    /\ pc[i] = "t_embed"
    /\ \E out \in {"vector", "notArray", "throws"} :
        /\ trace' = [trace EXCEPT ![i] =
                        Append(@, Ev("EMBED", "none", out # "throws", Undefined, Fresh))]
        /\ IF out = "vector" THEN pc' = [pc EXCEPT ![i] = "t_build"] /\ err' = err
           ELSE IF out = "throws" THEN Raise(i, "eEmbed", "t_catch")
           ELSE Raise(i, "eNotArray", "t_catch")
    /\ UNCHANGED <<caller, mode, role, opVal, opSess, ewrRes, toolRes, sess, poolCur, callNo, prev>>

\* operation === 'customQuery': executeCustomQuery(client, sqlQuery, undefined)
ToolCustomQuery(i) ==
    /\ pc[i] = "t_build"
    /\ mode[i] = "customQuery"
    /\ role' = [role EXCEPT ![i] = Undefined]
    /\ pc' = [pc EXCEPT ![i] = "ewr"]
    /\ UNCHANGED <<caller, mode, err, opVal, opSess, ewrRes, toolRes, trace, sess,
                   poolCur, callNo, prev>>

\* the node parameters are read, the five quoteIdentifier calls made and the SELECT
\* assembled, for parameters drawn from the given sets
ToolBuild(i, tables, columns, flags, limits) ==
    /\ pc[i] = "t_build"
    /\ mode[i] # "customQuery"
    /\ \E tableName \in tables, idCol \in columns, vectorCol \in columns,
          contentCol \in columns, metadataCol \in columns,
          includeMetadata \in flags, topK \in limits :
        LET q == BuildQuery(Request(tableName, idCol, vectorCol, contentCol, metadataCol,
                                    includeMetadata, topK), CosineOperator, "vectorString")
        IN  /\ prep' = [prep EXCEPT ![i] = q]
            /\ IF q.ok
               THEN pc' = [pc EXCEPT ![i] = "t_role"] /\ err' = err
               ELSE Raise(i, "eInvalidIdentifier", "t_catch")
    /\ UNCHANGED <<caller, mode, role, opVal, opSess, ewrRes, toolRes, trace, sess,
                   poolCur, callNo, prev>>

\* the five quoteIdentifier calls that build the SELECT
ToolQuoteIdentifiers(i) ==
    ToolBuild(i, { <<"t">>, <<"t", ";">> }, { <<"c">>, <<"c", "\"">> }, {TRUE}, {DefaultTopK})
\* the same step for the parameters of the retrieval specification
ToolBuildQuery(i) == ToolBuild(i, RetrieveTables, RetrieveColumns, BOOLEAN, TopKInputs)

\* faulty variant: the requested role goes to executeWithRole without ensureValidRole
ToolRoleUnchecked(i) ==
    /\ pc[i] = "t_role"
    /\ \E r \in RoleInputs :
            role' = [role EXCEPT ![i] = IF mode[i] = "retrieveRls" THEN r ELSE Undefined]
    /\ pc' = [pc EXCEPT ![i] = "ewr"]
    /\ UNCHANGED <<caller, mode, err, opVal, opSess, ewrRes, toolRes, trace, sess, poolCur, callNo, prev>>

\* role = operation === 'retrieveRls' ? ensureValidRole(rlsRole) : undefined
ToolRole(i) ==
    /\ pc[i] = "t_role"
    /\ IF mode[i] = "retrieveRls"
       THEN \E r \in RoleInputs :
            IF ensureValidRole(r).ok
            THEN /\ role' = [role EXCEPT ![i] = ensureValidRole(r).val]
                 /\ pc' = [pc EXCEPT ![i] = "ewr"]
                 /\ err' = err
            ELSE /\ Raise(i, "eInvalidRole", "t_catch")
                 /\ role' = role
       ELSE /\ role' = [role EXCEPT ![i] = Undefined]
            /\ pc' = [pc EXCEPT ![i] = "ewr"]
            /\ err' = err
    /\ UNCHANGED <<caller, mode, opVal, opSess, ewrRes, toolRes, trace, sess, poolCur, callNo, prev>>

\* return JSON.stringify(results, null, 2)
ToolReturn(i) ==
    /\ pc[i] = "t_return"
    /\ toolRes' = [toolRes EXCEPT ![i] =
                      [kind |-> "value", v |-> ewrRes[i].v, wrapped |-> FALSE]]
    /\ pc' = [pc EXCEPT ![i] = "t_finally"]
    /\ UNCHANGED <<caller, mode, role, err, opVal, opSess, ewrRes, trace, sess, poolCur, callNo, prev>>

\* faulty variant: the error leaves func without passing the finally block
ToolCatchLeak(i) ==
    /\ pc[i] = "t_catch"
    /\ toolRes' = [toolRes EXCEPT ![i] =
                      [kind |-> "error", v |-> err[i], wrapped |-> TRUE]]
    /\ pc' = [pc EXCEPT ![i] = "done"]
    /\ UNCHANGED <<caller, mode, role, err, opVal, opSess, ewrRes, trace, sess, poolCur, callNo, prev>>

\* catch (error) { ...; throw new Error(`Vector search failed: ${errorMessage}`) }
ToolCatch(i) ==
    /\ pc[i] = "t_catch"
    /\ toolRes' = [toolRes EXCEPT ![i] =
                      [kind |-> "error", v |-> err[i], wrapped |-> TRUE]]
    /\ pc' = [pc EXCEPT ![i] = "t_finally"]
    /\ UNCHANGED <<caller, mode, role, err, opVal, opSess, ewrRes, trace, sess, poolCur, callNo, prev>>

\* finally { await client.end() }: an error thrown here replaces the outcome
ToolFinally(i) ==
    /\ pc[i] = "t_finally"
    /\ \E ok \in BOOLEAN :
        /\ trace' = [trace EXCEPT ![i] =
                        Append(@, Ev("END", "client", ok, Undefined, sess[ClientOf(i)]["client"]))]
        /\ toolRes' = [toolRes EXCEPT ![i] =
                          IF ok THEN @ ELSE [kind |-> "error", v |-> "eEnd", wrapped |-> FALSE]]
    /\ sess' = [sess EXCEPT ![ClientOf(i)]["client"] = Fresh]
    /\ pc' = [pc EXCEPT ![i] = "done"]
    /\ UNCHANGED <<caller, mode, role, err, opVal, opSess, ewrRes, poolCur, callNo, prev>>

\* rlsRole = getRLSRole(this, 0, credentials.rlsRole); customQuery runs
\* executeCustomQuery(pool, sqlQuery, rlsRole), insert/retrieve only report
NodeGetRole(i) ==
    /\ pc[i] = "n_role"
    /\ \E nodeRole \in RoleInputs \cup {Undefined}, credentialsRole \in RoleInputs \cup {Undefined} :
        role' = [role EXCEPT ![i] = getRLSRole(nodeRole, credentialsRole)]
    /\ pc' = [pc EXCEPT ![i] = IF mode[i] = "customQuery" THEN "ewr" ELSE "n_finally"]
    /\ UNCHANGED <<caller, mode, err, opVal, opSess, ewrRes, toolRes, trace, sess,
                   poolCur, callNo, prev>>

\* finally { await pool.end() }
NodeFinally(i) ==
    /\ pc[i] = "n_finally"
    /\ toolRes' = [toolRes EXCEPT ![i] =
                      IF mode[i] = "customQuery"
                      THEN [kind |-> ewrRes[i].kind, v |-> ewrRes[i].v, wrapped |-> FALSE]
                      ELSE [kind |-> "value", v |-> "info", wrapped |-> FALSE]]
    /\ sess' = [sess EXCEPT ![ClientOf(i)]["pool1"] = Fresh, ![i]["pool2"] = Fresh]
    /\ pc' = [pc EXCEPT ![i] = "done"]
    /\ UNCHANGED <<caller, mode, role, err, opVal, opSess, ewrRes, trace, poolCur, callNo, prev>>

\* PostgresVectorStoreTool.execute (pool revision), operation 'customQuery':
\* creates its own pg Pool
StartPoolTool(i) ==
    /\ Begin(i, "ptool", "customQuery", Undefined, "p_prepare")
    /\ sess' = [sess EXCEPT ![ClientOf(i)]["pool1"] = Fresh, ![ClientOf(i)]["pool2"] = Fresh]
    /\ poolCur' = [poolCur EXCEPT ![i] = "pool1"]

\* faulty variant: the embedding is resolved whether or not the token occurred
AfterPrepareAlwaysEmbed(placeholderCount) == "p_embed"
\* placeholderCount > 0 ? Array(placeholderCount).fill(await resolveEmbedding()) : []
AfterPrepare(placeholderCount) == IF placeholderCount > 0 THEN "p_embed" ELSE "ewr"

\* the placeholder check and the replacement of the token by $1, $2, ...
PoolToolPrepare(i) ==
    /\ pc[i] = "p_prepare"
    /\ \E sqlQuery \in SeqsUpTo(PrepAlphabet, MaxSqlLen) \cup PositionalSql,
          vectorPlaceholder \in SeqsUpTo(PrepAlphabet, MaxTokenLen)
                                   \cup {<<" ">>, PositionalToken} :
        IF BlankPlaceholder(vectorPlaceholder)
        THEN /\ Raise(i, "eEmptyPlaceholder", "p_finally")
             /\ prep' = [prep EXCEPT ![i] =
                            [NoQuery EXCEPT !.raw = sqlQuery, !.token = vectorPlaceholder]]
        ELSE LET q == PrepareCustomQuery(sqlQuery, vectorPlaceholder) IN
             /\ prep' = [prep EXCEPT ![i] =
                            q @@ [raw |-> sqlQuery, token |-> vectorPlaceholder]]
             /\ pc' = [pc EXCEPT ![i] = AfterPrepare(q.count)]
             /\ err' = err
    /\ UNCHANGED <<caller, mode, role, opVal, opSess, ewrRes, toolRes, trace, sess,
                   poolCur, callNo, prev>>

\* await resolveEmbedding(), only when the token occurred
PoolToolEmbed(i) ==
    /\ pc[i] = "p_embed"
    /\ \E out \in {"vector", "notArray", "throws"} :
        /\ trace' = [trace EXCEPT ![i] =
                        Append(@, Ev("EMBED", "none", out # "throws", Undefined, Fresh))]
        /\ IF out = "vector" THEN pc' = [pc EXCEPT ![i] = "ewr"] /\ err' = err
           ELSE IF out = "throws" THEN Raise(i, "eEmbed", "p_finally")
           ELSE Raise(i, "eNotArray", "p_finally")
    /\ UNCHANGED <<caller, mode, role, opVal, opSess, ewrRes, toolRes, sess, poolCur,
                   callNo, prev, prep>>

\* finally { await pool.end() }; there is no catch: the error leaves execute as it is
PoolToolFinally(i) ==
    /\ pc[i] = "p_finally"
    /\ toolRes' = [toolRes EXCEPT ![i] =
                      IF ewrRes[i].kind # "none"
                      THEN [kind |-> ewrRes[i].kind, v |-> ewrRes[i].v, wrapped |-> FALSE]
                      ELSE [kind |-> "error", v |-> err[i], wrapped |-> FALSE]]
    /\ sess' = [sess EXCEPT ![ClientOf(i)]["pool1"] = Fresh, ![ClientOf(i)]["pool2"] = Fresh]
    /\ pc' = [pc EXCEPT ![i] = "done"]
    /\ UNCHANGED <<caller, mode, role, err, opVal, opSess, ewrRes, trace, poolCur, callNo,
                   prev, prep>>

\* PostgresVectorStoreTool.execute (first revision): creates its own pg Pool
StartExecute(i) ==
    /\ callNo[i] < MaxRetrieveCalls
    /\ \E m \in {"customQuery", "retrieveRls"} : Begin(i, "exec", m, Undefined, "x_build")
    /\ sess' = [sess EXCEPT ![ClientOf(i)]["pool1"] = Fresh, ![ClientOf(i)]["pool2"] = Fresh]
    /\ poolCur' = [poolCur EXCEPT ![i] = "pool1"]

\* operation === 'customQuery': executeCustomQuery(pool, sqlQuery)
ExecuteCustomQuery(i) ==
    /\ pc[i] = "x_build"
    /\ mode[i] = "customQuery"
    /\ role' = [role EXCEPT ![i] = Undefined]
    /\ pc' = [pc EXCEPT ![i] = "ewr"]
    /\ UNCHANGED <<caller, mode, err, opVal, opSess, ewrRes, toolRes, trace, sess,
                   poolCur, callNo, prev, prep>>

\* the else branch up to the call of executeWithRole: ensureValidRole, the node
\* parameters, the embedding input, the quoteIdentifier calls and the SELECT
ExecuteBuild(i) ==
    /\ pc[i] = "x_build"
    /\ mode[i] # "customQuery"
    /\ \E r \in RoleInputs, tableName \in RetrieveTables, idCol \in RetrieveColumns,
          vectorCol \in RetrieveColumns, contentCol \in RetrieveColumns,
          metadataCol \in RetrieveColumns, includeMetadata \in BOOLEAN, topK \in TopKInputs,
          embeddingItems \in {"vector", "none", "notArray"} :
        LET q == BuildQuery(Request(tableName, idCol, vectorCol, contentCol, metadataCol,
                                    includeMetadata, topK), L2Operator, "embeddingVector")
        IN  IF ~ensureValidRole(r).ok
            THEN Raise(i, "eInvalidRole", "x_finally") /\ UNCHANGED <<role, prep>>
            ELSE IF embeddingItems = "none"
            THEN Raise(i, "eEmbeddingRequired", "x_finally") /\ UNCHANGED <<role, prep>>
            ELSE IF embeddingItems = "notArray"
            THEN Raise(i, "eNotArray", "x_finally") /\ UNCHANGED <<role, prep>>
            ELSE /\ prep' = [prep EXCEPT ![i] = q]
                 /\ IF q.ok
                    THEN /\ role' = [role EXCEPT ![i] = ensureValidRole(r).val]
                         /\ pc' = [pc EXCEPT ![i] = "ewr"]
                         /\ err' = err
                    ELSE Raise(i, "eInvalidIdentifier", "x_finally") /\ role' = role
    /\ UNCHANGED <<caller, mode, opVal, opSess, ewrRes, toolRes, trace, sess, poolCur,
                   callNo, prev>>

\* finally { await pool.end() }; there is no catch: the error leaves execute as it is
ExecuteFinally(i) ==
    /\ pc[i] = "x_finally"
    /\ toolRes' = [toolRes EXCEPT ![i] =
                      IF ewrRes[i].kind # "none"
                      THEN [kind |-> ewrRes[i].kind, v |-> ewrRes[i].v, wrapped |-> FALSE]
                      ELSE [kind |-> "error", v |-> err[i], wrapped |-> FALSE]]
    /\ sess' = [sess EXCEPT ![ClientOf(i)]["pool1"] = Fresh, ![ClientOf(i)]["pool2"] = Fresh]
    /\ pc' = [pc EXCEPT ![i] = "done"]
    /\ UNCHANGED <<caller, mode, role, err, opVal, opSess, ewrRes, trace, poolCur, callNo,
                   prev, prep>>

(***************************************************************************)
(* Specification of the role-scoped execution                              *)
(***************************************************************************)
InitRole ==
    /\ pc = [i \in Invs |-> "idle"]
    /\ caller = [i \in Invs |-> "host"]
    /\ mode = [i \in Invs |-> "direct"]
    /\ role = [i \in Invs |-> Undefined]
    /\ err = [i \in Invs |-> "none"]
    /\ opVal = [i \in Invs |-> "none"]
    /\ opSess = [i \in Invs |-> "none"]
    /\ ewrRes = [i \in Invs |-> [kind |-> "none", v |-> "none"]]
    /\ toolRes = [i \in Invs |-> ([kind |-> "none", v |-> "none", wrapped |-> FALSE])]
    /\ trace = [i \in Invs |-> <<>>]
    /\ sess = [i \in Invs |-> [s \in SessionNames |-> Fresh]]
    /\ poolCur = [i \in Invs |-> "pool1"]
    /\ callNo = [i \in Invs |-> 0]
    /\ prev = [i \in Invs |-> [caller |-> "none", roleSet |-> FALSE, failed |-> FALSE,
                              rollbackFailed |-> FALSE]]
    /\ prep = [i \in Invs |-> NoQuery]

InitWrap ==
    /\ wcall = 0
    /\ debugMode = FALSE
    /\ wpc = "idle"
    /\ windex = NoIndex
    /\ wresp = [kind |-> "none"]
    /\ werr = [kind |-> "none"]
    /\ wres = [kind |-> "none"]
    /\ runIndex = 0
    /\ inputs = <<>>
    /\ outputs = <<>>

InitPure ==
    /\ qvalue = <<>>
    /\ qresult = NotCalled
    /\ rvalue = <<>>
    /\ rresult = NotCalled
    /\ cmessage = <<>>
    /\ cresult = FALSE
    /\ ccalls = 0
    /\ lastIndex = [k \in 1..Len(CRITICAL_ERROR_PATTERNS) |-> 0]
    /\ gnode = <<>>
    /\ gcred = <<>>
    /\ gresult = NotCalled.val

Init == InitRole /\ InitWrap /\ InitPure

\* one slot runs its invocations one after the other
Solo == {"i1"}

Next ==
    \/ \E i \in Solo : StartTool(i) /\ UNCHANGED <<wrapVars, pureVars>>
    \/ \E i \in Solo : StartNode(i) /\ UNCHANGED <<wrapVars, pureVars>>
    \/ \E i \in Solo : StartHost(i) /\ UNCHANGED <<wrapVars, pureVars>>
    \/ \E i \in Solo : ToolConnect(i) /\ UNCHANGED <<wrapVars, prep, pureVars>>
    \/ \E i \in Solo : ToolCheckQuery(i) /\ UNCHANGED <<wrapVars, prep, pureVars>>
    \/ \E i \in Solo : ToolEmbed(i) /\ UNCHANGED <<wrapVars, prep, pureVars>>
    \/ \E i \in Solo : ToolCustomQuery(i) /\ UNCHANGED <<wrapVars, prep, pureVars>>
    \/ \E i \in Solo : ToolQuoteIdentifiers(i) /\ UNCHANGED <<wrapVars, pureVars>>
    \/ \E i \in Solo : ToolRole(i) /\ UNCHANGED <<wrapVars, prep, pureVars>>
    \/ \E i \in Solo : ExecBegin(i) /\ UNCHANGED <<wrapVars, prep, pureVars>>
    \/ \E i \in Solo : ExecSetRole(i) /\ UNCHANGED <<wrapVars, prep, pureVars>>
    \/ \E i \in Solo : ExecOpStart(i) /\ UNCHANGED <<wrapVars, prep, pureVars>>
    \/ \E i \in Solo : ExecOpEnd(i) /\ UNCHANGED <<wrapVars, prep, pureVars>>
    \/ \E i \in Solo : ExecCommit(i) /\ UNCHANGED <<wrapVars, prep, pureVars>>
    \/ \E i \in Solo : ExecCatch(i) /\ UNCHANGED <<wrapVars, prep, pureVars>>
    \/ \E i \in Solo : ToolReturn(i) /\ UNCHANGED <<wrapVars, prep, pureVars>>
    \/ \E i \in Solo : ToolCatch(i) /\ UNCHANGED <<wrapVars, prep, pureVars>>
    \/ \E i \in Solo : ToolFinally(i) /\ UNCHANGED <<wrapVars, prep, pureVars>>
    \/ \E i \in Solo : NodeGetRole(i) /\ UNCHANGED <<wrapVars, prep, pureVars>>
    \/ \E i \in Solo : NodeFinally(i) /\ UNCHANGED <<wrapVars, prep, pureVars>>

Spec == Init /\ [][Next]_vars

\* every awaited call settles and the continuation after it runs
SpecFair == Init /\ [][Next]_vars /\ WF_vars(Next)

\* PostgresVectorStoreTool.execute in custom query mode, one call after the other
NextPrep ==
    \/ \E i \in Solo : StartPoolTool(i) /\ UNCHANGED <<wrapVars, pureVars>>
    \/ \E i \in Solo : PoolToolPrepare(i) /\ UNCHANGED <<wrapVars, pureVars>>
    \/ \E i \in Solo : PoolToolEmbed(i) /\ UNCHANGED <<wrapVars, pureVars>>
    \/ \E i \in Solo : ExecOpStart(i) /\ UNCHANGED <<wrapVars, prep, pureVars>>
    \/ \E i \in Solo : ExecOpEnd(i) /\ UNCHANGED <<wrapVars, prep, pureVars>>
    \/ \E i \in Solo : ExecCatch(i) /\ UNCHANGED <<wrapVars, prep, pureVars>>
    \/ \E i \in Solo : PoolToolFinally(i) /\ UNCHANGED <<wrapVars, pureVars>>

SpecPrep == Init /\ [][NextPrep]_vars

\* the agent calls the tool
StartRetrieve(i) == callNo[i] < MaxRetrieveCalls /\ StartTool(i)

\* the agent tool function and the first revision's execute, with every
\* combination of retrieval parameters
NextRetrieve ==
    \/ \E i \in Solo : StartExecute(i) /\ UNCHANGED <<wrapVars, pureVars>>
    \/ \E i \in Solo : ExecuteCustomQuery(i) /\ UNCHANGED <<wrapVars, pureVars>>
    \/ \E i \in Solo : ExecuteBuild(i) /\ UNCHANGED <<wrapVars, pureVars>>
    \/ \E i \in Solo : ExecuteFinally(i) /\ UNCHANGED <<wrapVars, pureVars>>
    \/ \E i \in Solo : StartRetrieve(i) /\ UNCHANGED <<wrapVars, pureVars>>
    \/ \E i \in Solo : ToolConnect(i) /\ UNCHANGED <<wrapVars, prep, pureVars>>
    \/ \E i \in Solo : ToolCheckQuery(i) /\ UNCHANGED <<wrapVars, prep, pureVars>>
    \/ \E i \in Solo : ToolEmbed(i) /\ UNCHANGED <<wrapVars, prep, pureVars>>
    \/ \E i \in Solo : ToolCustomQuery(i) /\ UNCHANGED <<wrapVars, prep, pureVars>>
    \/ \E i \in Solo : ToolBuildQuery(i) /\ UNCHANGED <<wrapVars, pureVars>>
    \/ \E i \in Solo : ToolRole(i) /\ UNCHANGED <<wrapVars, prep, pureVars>>
    \/ \E i \in Solo : ExecBegin(i) /\ UNCHANGED <<wrapVars, prep, pureVars>>
    \/ \E i \in Solo : ExecSetRole(i) /\ UNCHANGED <<wrapVars, prep, pureVars>>
    \/ \E i \in Solo : ExecOpStart(i) /\ UNCHANGED <<wrapVars, prep, pureVars>>
    \/ \E i \in Solo : ExecOpEnd(i) /\ UNCHANGED <<wrapVars, prep, pureVars>>
    \/ \E i \in Solo : ExecCommit(i) /\ UNCHANGED <<wrapVars, prep, pureVars>>
    \/ \E i \in Solo : ExecCatch(i) /\ UNCHANGED <<wrapVars, prep, pureVars>>
    \/ \E i \in Solo : ToolReturn(i) /\ UNCHANGED <<wrapVars, prep, pureVars>>
    \/ \E i \in Solo : ToolCatch(i) /\ UNCHANGED <<wrapVars, prep, pureVars>>
    \/ \E i \in Solo : ToolFinally(i) /\ UNCHANGED <<wrapVars, prep, pureVars>>

SpecRetrieve == Init /\ [][NextRetrieve]_vars

\* how many invocations each of the concurrent slots starts
MaxConcCalls == 1
\* the agent calls the tool while another call of it may be running
StartToolConc(i) == callNo[i] < MaxConcCalls /\ StartTool(i)

\* calls of the agent tool function interleaved at every await
NextConc ==
    \/ \E i \in Invs : StartToolConc(i) /\ UNCHANGED <<wrapVars, pureVars>>
    \/ \E i \in Invs : ToolConnect(i) /\ UNCHANGED <<wrapVars, prep, pureVars>>
    \/ \E i \in Invs : ToolCheckQuery(i) /\ UNCHANGED <<wrapVars, prep, pureVars>>
    \/ \E i \in Invs : ToolEmbed(i) /\ UNCHANGED <<wrapVars, prep, pureVars>>
    \/ \E i \in Invs : ToolCustomQuery(i) /\ UNCHANGED <<wrapVars, prep, pureVars>>
    \/ \E i \in Invs : ToolQuoteIdentifiers(i) /\ UNCHANGED <<wrapVars, pureVars>>
    \/ \E i \in Invs : ToolRole(i) /\ UNCHANGED <<wrapVars, prep, pureVars>>
    \/ \E i \in Invs : ExecBegin(i) /\ UNCHANGED <<wrapVars, prep, pureVars>>
    \/ \E i \in Invs : ExecSetRole(i) /\ UNCHANGED <<wrapVars, prep, pureVars>>
    \/ \E i \in Invs : ExecOpStart(i) /\ UNCHANGED <<wrapVars, prep, pureVars>>
    \/ \E i \in Invs : ExecOpEnd(i) /\ UNCHANGED <<wrapVars, prep, pureVars>>
    \/ \E i \in Invs : ExecCommit(i) /\ UNCHANGED <<wrapVars, prep, pureVars>>
    \/ \E i \in Invs : ExecCatch(i) /\ UNCHANGED <<wrapVars, prep, pureVars>>
    \/ \E i \in Invs : ToolReturn(i) /\ UNCHANGED <<wrapVars, prep, pureVars>>
    \/ \E i \in Invs : ToolCatch(i) /\ UNCHANGED <<wrapVars, prep, pureVars>>
    \/ \E i \in Invs : ToolFinally(i) /\ UNCHANGED <<wrapVars, prep, pureVars>>

SpecConc == Init /\ [][NextConc]_vars

(***************************************************************************)
(* The recording wrapper                                                   *)
(***************************************************************************)
\* messages of the errors the wrapped function throws
MsgPermissionDenied == <<"p","e","r","m","i","s","s","i","o","n"," ","d","e","n","i","e","d"," ","f","o","r"," ","t","a","b","l","e"," ","t">>
MsgRoleMissing == <<"R","o","l","e"," ","\"","x","\""," ","d","o","e","s"," ","n","o","t"," ","e","x","i","s","t">>
MsgBoom == <<"b","o","o","m">>
\* messages of the errors the host's logger and registration calls throw
MsgLogFailed == <<"l","o","g"," ","f","a","i","l","e","d">>
MsgHostFailed == <<"h","o","s","t"," ","f","a","i","l","e","d">>

\* what the wrapped function returns: a JSON array, another JSON value, or text
\* that is not JSON
Responses == { [json |-> TRUE,  array |-> TRUE,  items |-> <<"row1", "row2">>],
               [json |-> TRUE,  array |-> TRUE,  items |-> <<>>],
               [json |-> TRUE,  array |-> FALSE, items |-> <<"obj">>],
               [json |-> FALSE, array |-> FALSE, items |-> <<"text">>] }

WError(type, message) == [kind |-> "error", type |-> type, message |-> message]

\* a call of the host's logger: it returns or throws
\* logger.debug logs only in debug mode
DebugOutcomes == IF debugMode THEN BOOLEAN ELSE {TRUE}

\* an error leaves the wrapper
WrapThrow(e) ==
    /\ wres' = e
    /\ wpc' = "done"
\* an error thrown inside the try block is caught
WrapCaught(e) ==
    /\ werr' = e
    /\ wpc' = "catch_log"

\* the host calls the wrapped function: logger.debug('[Wrapper] Func called')
WrapCall ==
    /\ wpc \in {"idle", "done"}
    /\ wcall < MaxWrapCalls
    /\ wcall' = wcall + 1
    /\ \E d \in BOOLEAN : debugMode' = d
    /\ windex' = NoIndex
    /\ wresp' = ([kind |-> "none"])
    /\ werr' = ([kind |-> "none"])
    /\ wres' = ([kind |-> "none"])
    /\ wpc' = "log_called"
    /\ UNCHANGED <<runIndex, inputs, outputs>>

WrapLogCalled ==
    /\ wpc = "log_called"
    /\ \E ok \in DebugOutcomes :
          IF ok THEN wpc' = "add_input" /\ UNCHANGED wres
          ELSE WrapThrow(WError("Error", MsgLogFailed))
    /\ UNCHANGED <<wcall, debugMode, windex, wresp, werr, runIndex, inputs, outputs>>

\* const { index } = context.addInputData(connectionType, [[{ json: inputPayload }]])
WrapAddInput ==
    /\ wpc = "add_input"
    /\ \E ok \in BOOLEAN, q \in {"q1", "q2"} :
          IF ok
          THEN /\ inputs' = Append(inputs, [index |-> runIndex, query |-> q])
               /\ windex' = runIndex
               /\ runIndex' = runIndex + 1
               /\ wpc' = "log_registered"
               /\ UNCHANGED wres
          ELSE /\ WrapThrow(WError("Error", MsgHostFailed))
               /\ UNCHANGED <<inputs, windex, runIndex>>
    /\ UNCHANGED <<wcall, debugMode, wresp, werr, outputs>>

\* logger.debug('[Wrapper] Input registered', { index }), outside the try block
WrapLogRegistered ==
    /\ wpc = "log_registered"
    /\ \E ok \in DebugOutcomes :
          IF ok THEN wpc' = "func" /\ UNCHANGED wres
          ELSE WrapThrow(WError("Error", MsgLogFailed))
    /\ UNCHANGED <<wcall, debugMode, windex, wresp, werr, runIndex, inputs, outputs>>

\* const response = await originalFunc(input)
WrapFunc ==
    /\ wpc = "func"
    /\ \/ \E r \in Responses :
             /\ wresp' = ([kind |-> "value", v |-> r])
             /\ wpc' = "log_completed"
             /\ UNCHANGED werr
       \/ \E m \in {MsgPermissionDenied, MsgRoleMissing, MsgBoom} :
             /\ wresp' = WError("Error", m)
             /\ WrapCaught(WError("Error", m))
    /\ UNCHANGED <<wcall, debugMode, windex, wres, runIndex, inputs, outputs>>

\* logger.debug('[Wrapper] Func completed', ...)
WrapLogCompleted ==
    /\ wpc = "log_completed"
    /\ \E ok \in DebugOutcomes :
          IF ok THEN wpc' = "add_output" /\ UNCHANGED werr
          ELSE WrapCaught(WError("Error", MsgLogFailed))
    /\ UNCHANGED <<wcall, debugMode, windex, wresp, wres, runIndex, inputs, outputs>>

\* parse the response; context.addOutputData(connectionType, index, [outputItems])
WrapAddOutput ==
    /\ wpc = "add_output"
    /\ \E ok \in BOOLEAN :
          IF ok
          THEN /\ outputs' = Append(outputs, [index |-> windex, kind |-> "result",
                                              data |-> IF wresp.v.json /\ wresp.v.array
                                                       THEN wresp.v.items
                                                       ELSE <<[response |-> wresp.v.items[1]]>>])
               /\ wpc' = "log_search"
               /\ UNCHANGED werr
          ELSE /\ WrapCaught(WError("Error", MsgHostFailed))
               /\ UNCHANGED outputs
    /\ UNCHANGED <<wcall, debugMode, windex, wresp, wres, runIndex, inputs>>

\* logger.info('[Tool] Search completed', ...); return response
WrapLogSearch ==
    /\ wpc = "log_search"
    /\ \E ok \in BOOLEAN :
          IF ok
          THEN /\ wres' = wresp
               /\ wpc' = "done"
               /\ UNCHANGED werr
          ELSE /\ WrapCaught(WError("Error", MsgLogFailed))
               /\ UNCHANGED wres
    /\ UNCHANGED <<wcall, debugMode, windex, wresp, runIndex, inputs, outputs>>

\* catch (error): logger.error('[Tool] Execution failed', { error: errorMessage })
WrapCatchLog ==
    /\ wpc = "catch_log"
    /\ \E ok \in BOOLEAN :
          IF ok THEN wpc' = "catch_output" /\ UNCHANGED wres
          ELSE WrapThrow(WError("Error", MsgLogFailed))
    /\ UNCHANGED <<wcall, debugMode, windex, wresp, werr, runIndex, inputs, outputs>>

\* context.addOutputData(connectionType, index, [[{ json: { error: errorMessage }, ... }]])
WrapCatchOutput ==
    /\ wpc = "catch_output"
    /\ \E ok \in BOOLEAN :
          IF ok
          THEN /\ outputs' = Append(outputs, [index |-> windex, kind |-> "error",
                                              data |-> <<[error |-> werr.message]>>])
               /\ wpc' = "classify"
               /\ UNCHANGED wres
          ELSE /\ WrapThrow(WError("Error", MsgHostFailed))
               /\ UNCHANGED outputs
    /\ UNCHANGED <<wcall, debugMode, windex, wresp, werr, runIndex, inputs>>

\* if (isCriticalError(error)) { logger.info(...); throw new NodeOperationError(...) }
\* throw error
WrapClassify ==
    /\ wpc = "classify"
    /\ IF isCriticalError(werr.message)
       THEN \E ok \in BOOLEAN :
               IF ok THEN WrapThrow(WError("NodeOperationError", werr.message))
               ELSE WrapThrow(WError("Error", MsgLogFailed))
       ELSE WrapThrow(werr)
    /\ UNCHANGED <<wcall, debugMode, windex, wresp, werr, runIndex, inputs, outputs>>

NextWrap ==
    \/ WrapCall /\ UNCHANGED <<roleVars, pureVars>>
    \/ WrapLogCalled /\ UNCHANGED <<roleVars, pureVars>>
    \/ WrapAddInput /\ UNCHANGED <<roleVars, pureVars>>
    \/ WrapLogRegistered /\ UNCHANGED <<roleVars, pureVars>>
    \/ WrapFunc /\ UNCHANGED <<roleVars, pureVars>>
    \/ WrapLogCompleted /\ UNCHANGED <<roleVars, pureVars>>
    \/ WrapAddOutput /\ UNCHANGED <<roleVars, pureVars>>
    \/ WrapLogSearch /\ UNCHANGED <<roleVars, pureVars>>
    \/ WrapCatchLog /\ UNCHANGED <<roleVars, pureVars>>
    \/ WrapCatchOutput /\ UNCHANGED <<roleVars, pureVars>>
    \/ WrapClassify /\ UNCHANGED <<roleVars, pureVars>>

SpecWrap == Init /\ [][NextWrap]_vars

(***************************************************************************)
(* Specification of quoteIdentifier as a function of its argument          *)
(***************************************************************************)
\* one call quoteIdentifier(value)
QuoteIdentifierCall ==
    /\ qresult = NotCalled
    /\ \E value \in IdentInputs :
          /\ qvalue' = value
          /\ qresult' = quoteIdentifier(value)

NextQuote ==
    \/ QuoteIdentifierCall
          /\ UNCHANGED <<roleVars, wrapVars, rvalue, rresult, cmessage, cresult, ccalls,
                         lastIndex, gnode, gcred, gresult>>

SpecQuote == Init /\ [][NextQuote]_vars

(***************************************************************************)
(* Specification of ensureValidRole as a function of its argument          *)
(***************************************************************************)
\* one call ensureValidRole(role)
EnsureValidRoleCall ==
    /\ rresult = NotCalled
    /\ \E r \in RoleNameInputs :
          /\ rvalue' = r
          /\ rresult' = ensureValidRole(r)

NextValidRole ==
    \/ EnsureValidRoleCall
          /\ UNCHANGED <<roleVars, wrapVars, qvalue, qresult, cmessage, cresult, ccalls,
                         lastIndex, gnode, gcred, gresult>>

SpecValidRole == Init /\ [][NextValidRole]_vars

(***************************************************************************)
(* Specification of isCriticalError as a function of the error's message   *)
(***************************************************************************)
\* one call isCriticalError(error), error an Error with the message
IsCriticalErrorCall ==
    /\ ccalls < MaxCriticalCalls
    /\ \E message \in MessageInputs :
          LET r == SomePatternFrom(1, message, lastIndex)
          IN  /\ cmessage' = message
              /\ cresult' = r.result
              /\ lastIndex' = r.lastIndex
    /\ ccalls' = ccalls + 1

NextCritical ==
    \/ IsCriticalErrorCall
          /\ UNCHANGED <<roleVars, wrapVars, qvalue, qresult, rvalue, rresult, gnode, gcred, gresult>>

SpecCritical == Init /\ [][NextCritical]_vars

(***************************************************************************)
(* Specification of getRLSRole as a function of its two roles              *)
(***************************************************************************)
\* one call getRLSRole(context, itemIndex, credentialsRole)
GetRLSRoleCall ==
    /\ gresult = NotCalled.val
    /\ \E nodeRole \in RoleParamInputs, credentialsRole \in RoleParamInputs :
          /\ gnode' = nodeRole
          /\ gcred' = credentialsRole
          /\ gresult' = getRLSRole(nodeRole, credentialsRole)

NextGetRole ==
    \/ GetRLSRoleCall
          /\ UNCHANGED <<roleVars, wrapVars, qvalue, qresult, rvalue, rresult, cmessage, cresult,
                         ccalls, lastIndex>>

SpecGetRole == Init /\ [][NextGetRole]_vars

(***************************************************************************)
(* Properties of the role-scoped execution                                 *)
(***************************************************************************)
Events(i, kinds) == {n \in 1..Len(trace[i]) : trace[i][n].stmt \in kinds}
Count(i, kind) == Cardinality(Events(i, {kind}))
EwrStatements == {"BEGIN", "SET", "OP", "OPEND", "COMMIT", "ROLLBACK"}
\* executeWithRole has returned or thrown
Returned(i) == ewrRes[i].kind # "none"
OpFailed(i) == \E n \in Events(i, {"OPEND"}) : ~trace[i][n].ok
OpSucceeded(i) == \E n \in Events(i, {"OPEND"}) : trace[i][n].ok
CommitFailed(i) == \E n \in Events(i, {"COMMIT"}) : ~trace[i][n].ok

\* C1: with a role, whenever the operation fails the caller of executeWithRole
\* observes the operation's own error, also when ROLLBACK fails.
C1_OriginalErrorObserved ==
    \A i \in Invs :
        (HasRole(role[i]) /\ OpFailed(i) /\ ewrRes[i].kind = "error")
            => ewrRes[i].v = "eOp"

\* C2 as stated: a role-scoped invocation issues exactly one of COMMIT and ROLLBACK.
C2_ExactlyOneOfCommitRollback ==
    \A i \in Invs :
        (HasRole(role[i]) /\ Returned(i))
            => Count(i, "COMMIT") + Count(i, "ROLLBACK") = 1

\* C2 amended: a role-scoped invocation issues COMMIT at most once and ROLLBACK at
\* most once and at least one of them; it issues both exactly when the COMMIT
\* statement itself failed, and then ROLLBACK follows the failed COMMIT.
C2_CommitOrRollbackBothOnlyAfterFailedCommit ==
    \A i \in Invs :
        (HasRole(role[i]) /\ Returned(i))
            => /\ Count(i, "COMMIT") <= 1
               /\ Count(i, "ROLLBACK") <= 1
               /\ Count(i, "COMMIT") + Count(i, "ROLLBACK") >= 1
               /\ (Count(i, "COMMIT") + Count(i, "ROLLBACK") = 2) <=> CommitFailed(i)
               /\ \A c \in Events(i, {"COMMIT"}), r \in Events(i, {"ROLLBACK"}) : c < r

C2_Witness ==
    \E i \in Invs :
        /\ HasRole(role[i]) /\ Returned(i) /\ CommitFailed(i)
        /\ Count(i, "ROLLBACK") = 1

C4_OnlyValidatedRolesReachSetLocalRole ==
    \A i \in Invs : \A n \in Events(i, {"SET"}) : IdentRegex(trace[i][n].role)

\* C5: all statements of a role-scoped invocation run on one and the same session.
C5_OneSessionPerInvocation ==
    \A i \in Invs :
        HasRole(role[i])
            => \A n, m \in Events(i, EwrStatements) : trace[i][n].sess = trace[i][m].sess

\* C6: without a role (absent, empty or blank) no BEGIN, SET LOCAL ROLE, COMMIT or
\* ROLLBACK is issued, on success and on failure alike; the operation is invoked
\* once, outside any transaction, and its result or error is what the caller gets.
C6_NoRoleNoTransaction ==
    \A i \in Invs :
        (role[i] = Undefined \/ Trim(role[i]) = <<>>)
            => /\ Events(i, {"BEGIN", "SET", "COMMIT", "ROLLBACK"}) = {}
               /\ Count(i, "OP") <= 1
               /\ \A n \in Events(i, {"OP"}) : trace[i][n].txn = "idle"
               /\ Returned(i)
                    => /\ Count(i, "OP") = 1
                       /\ Count(i, "OPEND") = 1
                       /\ OpSucceeded(i) => ewrRes[i] = [kind |-> "value", v |-> opVal[i]]
                       /\ OpFailed(i) => ewrRes[i] = [kind |-> "error", v |-> "eOp"]

\* the failure path of an invocation whose role is a blank string
C6_Witness ==
    \E i \in Invs :
        /\ role[i] = <<" ">> /\ Returned(i) /\ OpFailed(i)
        /\ ewrRes[i].kind = "error"

\* C7: with a role the steps are ordered: the operation starts only after BEGIN
\* and then SET LOCAL ROLE succeeded, COMMIT or ROLLBACK is issued only when no
\* operation is still running, and COMMIT only after the operation succeeded.
C7_StrictOrder ==
    \A i \in Invs :
        HasRole(role[i])
            => /\ \A n \in Events(i, {"SET"}) :
                     \E b \in Events(i, {"BEGIN"}) : b < n /\ trace[i][b].ok
               /\ \A n \in Events(i, {"OP"}) :
                     \E b \in Events(i, {"BEGIN"}), s \in Events(i, {"SET"}) :
                        b < s /\ s < n /\ trace[i][b].ok /\ trace[i][s].ok
               /\ \A n \in Events(i, {"COMMIT", "ROLLBACK"}) :
                     \A o \in Events(i, {"OP"}) :
                        o < n => \E e \in Events(i, {"OPEND"}) : o < e /\ e < n
               /\ \A n \in Events(i, {"COMMIT"}) :
                     \E e \in Events(i, {"OPEND"}) : e < n /\ trace[i][e].ok
               /\ pc[i] = "op_run" => Events(i, {"COMMIT", "ROLLBACK"}) = {}

C7_Witness ==
    \E i \in Invs :
        /\ HasRole(role[i]) /\ ewrRes[i].kind = "value"
        /\ Count(i, "BEGIN") = 1 /\ Count(i, "SET") = 1 /\ Count(i, "OP") = 1
        /\ Count(i, "COMMIT") = 1

\* C8: with a role, an error that reaches the caller after BEGIN succeeded (SET
\* LOCAL ROLE, the operation or COMMIT failed) was preceded by a ROLLBACK.
C8_RollbackBeforeErrorPropagates ==
    \A i \in Invs :
        (HasRole(role[i]) /\ ewrRes[i].kind = "error" /\ (\E n \in Events(i, {"BEGIN"}) : trace[i][n].ok))
            => Count(i, "ROLLBACK") >= 1

C8_Witness ==
    \E i \in Invs :
        /\ HasRole(role[i]) /\ ewrRes[i].kind = "error" /\ (\E n \in Events(i, {"BEGIN"}) : trace[i][n].ok)
        /\ \E n \in Events(i, {"SET"}) : ~trace[i][n].ok

\* C10: when an input-validation error is raised, the invocation has issued no
\* connect and no statement.
C10_ValidationBeforeDatabaseIO ==
    \A i \in Invs :
        (pc[i] = "t_catch" /\ err[i] \in {"eInvalidIdentifier", "eInvalidRole"})
            => Events(i, {"CONNECT"} \cup EwrStatements) = {}


C13_ConcurrentInvocationsIndependent ==
    [][ /\ \A i \in Invs : \A n \in 1..Len(trace'[i]) :
              trace'[i][n].stmt = "OP"
                  => /\ trace'[i][n].sess = "client"
                     /\ trace'[i][n].as = IF HasRole(role'[i]) THEN role'[i] ELSE Login
                     /\ HasRole(role'[i]) <=> trace'[i][n].txn = "open"
        /\ \A i, j \in Invs :
              (i # j /\ (pc'[i] # pc[i] \/ trace'[i] # trace[i])) => sess'[ClientOf(j)] = sess[ClientOf(j)]
      ]_vars

\* two invocations are inside their operations at the same time, under different roles
C13_Witness ==
    /\ pc["i1"] = "op_run" /\ pc["i2"] = "op_run"
    /\ role["i1"] = <<"r">> /\ role["i2"] = <<"s">>
    /\ sess[ClientOf("i1")]["client"].role = <<"r">>
    /\ sess[ClientOf("i2")]["client"].role = <<"s">>

\* C14: nothing is retried: within one invocation BEGIN, SET LOCAL ROLE, the
\* operation, COMMIT and ROLLBACK are each executed at most once, and after the
\* first failed step the only statement still issued is the one ROLLBACK.
C14_NoRetry ==
    \A i \in Invs :
        /\ \A k \in EwrStatements : Count(i, k) <= 1
        /\ \A n, m \in Events(i, EwrStatements) :
              (n < m /\ ~trace[i][n].ok) => trace[i][m].stmt = "ROLLBACK"

\* the operation failed, was rolled back, and the invocation is over
C14_Witness ==
    \E i \in Invs :
        /\ pc[i] = "done" /\ HasRole(role[i]) /\ OpFailed(i)
        /\ Count(i, "OP") = 1 /\ Count(i, "ROLLBACK") = 1


C16_CustomSqlBindsVector ==
    \A i \in Invs :
        (caller[i] = "tool" /\ mode[i] = "customQuery")
            => \A n \in Events(i, {"OP"}) :
                  (\E k \in 1..(Len(trace[i][n].sql) - 1) :
                      SubSeq(trace[i][n].sql, k, k + 1) = <<"$", "1">>)
                      => /\ Len(trace[i][n].params) >= 1
                         /\ trace[i][n].params[1] = "vectorString"

\* the custom query of invocation i has been prepared
Prepared(i) ==
    caller[i] = "ptool" /\ pc[i] \notin {"idle", "p_prepare"} /\ err[i] # "eEmptyPlaceholder"
\* the positions of the occurrences of tok in s, scanning left to right from `from`
RECURSIVE Occurrences(_, _, _)
Occurrences(s, tok, from) ==
    LET LiteralAt(k) == k + Len(tok) - 1 <= Len(s) /\ SubSeq(s, k, k + Len(tok) - 1) = tok
    IN  IF \E k \in from..Len(s) : LiteralAt(k)
        THEN LET k == CHOOSE j \in from..Len(s) :
                          LiteralAt(j) /\ \A h \in from..(j - 1) : ~LiteralAt(h)
             IN  <<k>> \o Occurrences(s, tok, k + Len(tok))
        ELSE <<>>
\* s with its k-th occurrence (k = n..Len(occ)) replaced by $k, from position `from`
RECURSIVE Substituted(_, _, _, _, _)
Substituted(s, tok, occ, n, from) ==
    IF n > Len(occ) THEN SubSeq(s, from, Len(s))
    ELSE SubSeq(s, from, occ[n] - 1) \o <<"$", DigitSeq[n + 1]>>
         \o Substituted(s, tok, occ, n + 1, occ[n] + Len(tok))

\* C17: custom-query preparation replaces the k-th literal occurrence of the
\* non-blank token, scanning left to right, by $k, leaves the rest of the SQL as
\* it is, and builds a parameter list of one embedding per occurrence.
C17_PlaceholdersBecomePositionalParameters ==
    \A i \in Invs :
        Prepared(i)
            => LET occ == Occurrences(prep[i].raw, prep[i].token, 1) IN
               /\ prep[i].count = Len(occ)
               /\ prep[i].sql = Substituted(prep[i].raw, prep[i].token, occ, 1, 1)
               /\ Len(prep[i].params) = Len(occ)
               /\ \A k \in 1..Len(occ) : prep[i].params[k] = Embedding

\* two occurrences of a token that is a regular-expression metacharacter
C17_Witness ==
    \E i \in Invs :
        /\ Prepared(i)
        /\ prep[i].raw = <<".", "a", ".">> /\ prep[i].token = <<".">>
        /\ prep[i].sql = <<"$", "1", "a", "$", "2">>
        /\ prep[i].params = <<Embedding, Embedding>>


C19_NoPlaceholderPlainSql ==
    \A i \in Invs :
        (Prepared(i) /\ Occurrences(prep[i].raw, prep[i].token, 1) = <<>>)
            => /\ prep[i].sql = prep[i].raw
               /\ prep[i].params = <<>>
               /\ Events(i, {"EMBED"}) = {}
               /\ \A n \in Events(i, {"OP"}) :
                     trace[i][n].sql = prep[i].raw /\ trace[i][n].params = <<>>
               /\ pc[i] # "p_embed"
               /\ pc[i] # "ewr" => Count(i, "OP") = 1

\* plain SQL has been executed
C19_Witness ==
    \E i \in Invs :
        /\ (Prepared(i) /\ Occurrences(prep[i].raw, prep[i].token, 1) = <<>>) /\ pc[i] = "done"
        /\ prep[i].raw = <<"a", ".", "a">> /\ prep[i].token = <<"{">>
        /\ toolRes[i].kind = "value"


\* C35: the query custom-query preparation produces is consistent with its
\* parameter list: the bind-parameter list is as long as the highest positional
\* index $k the produced SQL refers to, also when the raw SQL already holds
\* positional references or the token is itself of the form $1.
C35_ParamsMatchHighestIndex ==
    LET IsDigit(c) == \E d \in 1..10 : DigitSeq[d] = c
        DigitValue(c) == (CHOOSE d \in 1..10 : DigitSeq[d] = c) - 1
        RECURSIVE ReadIndex(_, _, _)
        ReadIndex(s, k, acc) ==
            IF k <= Len(s) /\ IsDigit(s[k])
            THEN ReadIndex(s, k + 1, 10 * acc + DigitValue(s[k]))
            ELSE acc
        HighestIndex(s) ==
            LET refs == {ReadIndex(s, k + 1, 0) : k \in {j \in 1..Len(s) : s[j] = "$"}}
            IN  IF refs = {} THEN 0 ELSE CHOOSE n \in refs : \A m \in refs : m <= n
    IN  \A i \in Invs :
            Prepared(i) => Len(prep[i].params) = HighestIndex(prep[i].sql)

\* a part wrapped in double quotes
Quoted(part) == <<"\"">> \o part \o <<"\"">>
\* the string without its double quotes
RECURSIVE StripQuotes(_)
StripQuotes(s) ==
    IF s = <<>> THEN <<>>
    ELSE IF Head(s) = "\"" THEN StripQuotes(Tail(s))
         ELSE <<Head(s)>> \o StripQuotes(Tail(s))
\* the value is two identifier parts separated by the dot at position k
TwoPartsAt(value, k) ==
    /\ value[k] = "."
    /\ IdentRegex(SubSeq(value, 1, k - 1))
    /\ IdentRegex(SubSeq(value, k + 1, Len(value)))

\* C20: for an identifier matching ^[A-Za-z_][A-Za-z0-9_]*$, or two such parts
\* separated by one dot, quoteIdentifier returns each part wrapped in double
\* quotes, the parts rejoined with '.', and removing the double quotes from the
\* result gives back the input.
C20_QuoteIdentifierRoundTrip ==
    qresult # NotCalled
        => /\ IdentRegex(qvalue)
                => /\ qresult.ok
                   /\ qresult.val = Quoted(qvalue)
                   /\ StripQuotes(qresult.val) = qvalue
           /\ \A k \in 1..Len(qvalue) :
                TwoPartsAt(qvalue, k)
                    => /\ qresult.ok
                       /\ qresult.val = Quoted(SubSeq(qvalue, 1, k - 1)) \o <<".">>
                                          \o Quoted(SubSeq(qvalue, k + 1, Len(qvalue)))
                       /\ StripQuotes(qresult.val) = qvalue

\* a schema-qualified name has been quoted
C20_Witness ==
    /\ qvalue = <<"_", "1", ".", "B">>
    /\ qresult.ok
    /\ qresult.val = <<"\"", "_", "1", "\"", ".", "\"", "B", "\"">>

\* a single valid name, or exactly two valid names joined by one dot
OneOrTwoNames(value) ==
    IdentRegex(value) \/ \E k \in 1..Len(value) : TwoPartsAt(value, k)

\* C21: quoteIdentifier fails with the invalid-identifier error for every input
\* that is not a single valid name or exactly two valid names joined by one dot
\* (empty, holding a double quote or ';', starting with a digit, with an empty
\* part, or with two or more dots).
C21_OtherIdentifiersRejected ==
    qresult # NotCalled /\ ~OneOrTwoNames(qvalue) => ~qresult.ok

\* C22: for every role name matching ^[A-Za-z_][A-Za-z0-9_]*$ the role validator
\* returns the same string unchanged; for every other input (empty, holding
\* spaces, hyphens, dots, quotes or other SQL metacharacters, or starting with a
\* digit) it fails with the invalid-role error.
C22_RoleValidatorAcceptsExactlyNames ==
    LET ValidRoleName(s) ==
            /\ s # <<>>
            /\ {s[k] : k \in 1..Len(s)} \subseteq (Lower \cup Upper \cup Digit \cup {"_"})
            /\ s[1] \notin Digit
    IN
    rresult # NotCalled
        => /\ ValidRoleName(rvalue) => rresult.ok /\ rresult.val = rvalue
           /\ ~ValidRoleName(rvalue) => ~rresult.ok
           /\ ( \/ rvalue = <<>>
                \/ rvalue[1] \in Digit
                \/ \E k \in 1..Len(rvalue) : rvalue[k] \in {" ", "-", ".", "\"", ";"} )
                    => ~rresult.ok

\* a valid name has been returned unchanged
C22_Witness ==
    rvalue = <<"_", "R", "2">> /\ rresult.ok /\ rresult.val = <<"_", "R", "2">>


\* C23: in retrieval mode every caller-supplied identifier (table, id, vector,
\* content and metadata column) passes through quoteIdentifier before the SELECT
\* is assembled; if one of them is not a valid identifier (a name, or two names
\* joined by one dot) the invocation fails with the invalid-identifier error and
\* neither BEGIN nor the SELECT is issued.
C23_InvalidIdentifierFailsBeforeSql ==
    \A i \in Invs :
        /\ (caller[i] = "tool" /\ mode[i] # "customQuery" /\ Events(i, EwrStatements) # {})
              => (caller[i] = "tool" /\ mode[i] # "customQuery" /\ "ok" \in DOMAIN prep[i]) /\ prep[i].ok
        /\ ((caller[i] = "tool" /\ mode[i] # "customQuery" /\ "ok" \in DOMAIN prep[i]) /\ prep[i].ok)
              => \A k \in 1..5 : OneOrTwoNames(Identifiers(prep[i].req)[k])
        /\ ((caller[i] = "tool" /\ mode[i] # "customQuery" /\ "ok" \in DOMAIN prep[i]) /\ ~prep[i].ok)
              => /\ err[i] = "eInvalidIdentifier"
                 /\ Events(i, EwrStatements) = {}
                 /\ pc[i] \in {"t_catch", "t_finally", "done"}

\* C24: in retrieval mode a limit that is not an integer from 1 to 1000 makes the
\* build fail with the invalid-limit error, and no query is issued.
C24_LimitValidatedBeforeBinding ==
    \A i \in Invs :
        ((caller[i] = "tool" /\ mode[i] # "customQuery" /\ "ok" \in DOMAIN prep[i]) /\ prep[i].ok /\ prep[i].req.topK \notin 1..1000)
            => /\ Events(i, EwrStatements) = {}
               /\ pc[i] \in {"t_catch", "t_finally", "done"}
               /\ err[i] = "eInvalidLimit"

\* the SELECT the specification describes for the request
\* C25: the retrieval query selects the id column AS id and the content column AS
\* content, the metadata column AS metadata exactly when includeMetadata is true,
\* reads FROM the quoted table, orders by the quoted vector column with the cosine
\* operator <=> $1, ends with LIMIT $2 and binds exactly [embedding vector, limit];
\* the operator is the same whatever the caller supplies.
C25_RetrievalQueryShape ==
    LET ExpectedSelect(req) ==
        <<"S", "E", "L", "E", "C", "T", " ">> \o Quoted(OrDefault(req.id, DefaultColumnNames.id))
            \o <<" ", "A", "S", " ", "i", "d", ",", " ">>
            \o Quoted(OrDefault(req.content, DefaultColumnNames.content))
            \o <<" ", "A", "S", " ", "c", "o", "n", "t", "e", "n", "t">>
            \o (IF req.includeMetadata
                THEN <<",", " ">> \o Quoted(OrDefault(req.metadata, DefaultColumnNames.metadata))
                        \o <<" ", "A", "S", " ", "m", "e", "t", "a", "d", "a", "t", "a">>
                ELSE <<>>)
            \o <<"\n", "F", "R", "O", "M", " ">> \o JoinQuoted(SplitDot(req.table))
            \o <<"\n", "O", "R", "D", "E", "R", " ", "B", "Y", " ">>
            \o Quoted(OrDefault(req.vector, DefaultColumnNames.vector))
            \o <<" ", "<", "=", ">", " ", "$", "1", "\n", "L", "I", "M", "I", "T", " ", "$", "2">>
    IN
    \A i \in Invs :
        (caller[i] \in {"tool", "exec"} /\ mode[i] # "customQuery" /\ "req" \in DOMAIN prep[i])
            => /\ prep[i].sql = ExpectedSelect(prep[i].req)
               /\ Len(prep[i].params) = 2
               /\ prep[i].params[1] \in {"vectorString", "embeddingVector"}
               /\ prep[i].params[2] = prep[i].req.topK
               /\ \A n \in Events(i, {"OP"}) :
                     trace[i][n].sql = prep[i].sql /\ trace[i][n].params = prep[i].params

\* C26: isCriticalError returns Critical exactly when the error's message matches
\* at least one pattern of the catalogue, Ordinary otherwise; the result depends
\* only on the message, is the same on repeated calls, and the call changes no
\* state (no pattern's lastIndex moves).
C26_CriticalExactlyOnCatalogueMatch ==
    \* the literals of a pattern occur in order, whatever the case of the letters,
    \* with no line break between them
    LET CatalogueMatch(message) ==
        \E k \in 1..Len(CRITICAL_ERROR_PATTERNS) :
            LET lits == CRITICAL_ERROR_PATTERNS[k]
            IN  \E a \in 1..Len(message) :
                    /\ OccursAt(message, lits[1], a)
                    /\ Len(lits) = 2
                          => \E b \in (a + Len(lits[1]))..Len(message) :
                                /\ OccursAt(message, lits[2], b)
                                /\ NoNewline(message, a + Len(lits[1]), b - 1)
    IN
    /\ ccalls > 0 => (cresult <=> CatalogueMatch(cmessage))
    /\ ccalls > 0 => cresult = isCriticalError(cmessage)
    /\ \A k \in 1..Len(CRITICAL_ERROR_PATTERNS) : lastIndex[k] = 0

\* a second call has classified a lower-case message with filler as critical
C26_Witness ==
    /\ ccalls = 2
    /\ cmessage = <<"e", ":", " ", "s", "s", "l", "x", "r", "e", "q", "u", "i", "r", "e", "d">>
    /\ cresult

\* C27: getRLSRole returns the trimmed node-parameter role whenever that parameter
\* is non-blank, whatever the credentials role; otherwise the trimmed credentials
\* role when that is non-blank; otherwise undefined (also when reading the node
\* parameter throws).
C27_NodeRoleOverridesCredentials ==
    \* the role without the whitespace before its first and after its last other character
    LET Core(s) ==
        LET ks == {k \in 1..Len(s) : s[k] \notin Space}
        IN  SubSeq(s, CHOOSE k \in ks : \A h \in ks : k <= h,
                      CHOOSE k \in ks : \A h \in ks : h <= k)
    IN
    gresult # NotCalled.val
        => gresult = IF ~(gnode = Undefined \/ \A k \in 1..Len(gnode) : gnode[k] \in Space) THEN Core(gnode)
                     ELSE IF ~(gcred = Undefined \/ \A k \in 1..Len(gcred) : gcred[k] \in Space) THEN Core(gcred)
                     ELSE Undefined

\* a padded node parameter has overridden the credentials role
C27_Witness ==
    /\ gnode = <<" ", "r", "\t">>
    /\ gcred = <<"2">>
    /\ gresult = <<"r">>


\* C28: in executeWithRole a ROLLBACK is issued only if a transaction was started:
\* when the BEGIN statement itself fails, no ROLLBACK is sent on the connection
\* and the BEGIN error is what the caller gets.
C28_NoRollbackWithoutTransaction ==
    \A i \in Invs :
        (HasRole(role[i]) /\ \E n \in Events(i, {"BEGIN"}) : ~trace[i][n].ok)
            => /\ Count(i, "ROLLBACK") = 0
               /\ Returned(i) => ewrRes[i] = [kind |-> "error", v |-> "eBegin"]

\* C29: a role-scoped executeWithRole returns the operation's result only if COMMIT
\* succeeded, and the value returned is exactly the value the operation produced;
\* when the operation succeeds but COMMIT fails, the caller receives an error and
\* no result.
C29_ResultOnlyAfterCommit ==
    \A i \in Invs :
        (HasRole(role[i]) /\ Returned(i))
            => /\ ewrRes[i].kind = "value"
                    => /\ \E n \in Events(i, {"COMMIT"}) : trace[i][n].ok
                       /\ OpSucceeded(i)
                       /\ ewrRes[i].v = opVal[i]
               /\ (OpSucceeded(i) /\ CommitFailed(i))
                    => ewrRes[i].kind = "error" /\ ewrRes[i].v \in {"eCommit", "eRollback"}

\* the operation succeeded, COMMIT failed, and the caller got the error
C29_Witness ==
    \E i \in Invs :
        /\ HasRole(role[i]) /\ Returned(i)
        /\ OpSucceeded(i) /\ CommitFailed(i)
        /\ ewrRes[i] = [kind |-> "error", v |-> "eCommit"]


\* C30: in the agent tool's 'retrieveRls' mode the SELECT runs only between the
\* successful SET LOCAL ROLE of the validated role and the COMMIT of the same
\* invocation, under that role and never under the login role: a blank role is
\* rejected by the validator, so executeWithRole is never entered without a role.
\* In 'retrieve' mode no BEGIN, SET LOCAL ROLE, COMMIT or ROLLBACK is ever issued.
C30_RlsRetrieveInsideRoleTransaction ==
    \A i \in Invs :
        caller[i] = "tool"
            => /\ (mode[i] = "retrieveRls" /\ pc[i] \in {"ewr", "set", "op", "op_run", "commit", "catch"})
                    => HasRole(role[i]) /\ IdentRegex(role[i])
               /\ mode[i] = "retrieveRls"
                    => \A n \in Events(i, {"OP"}) :
                           /\ \E m \in 1..(n - 1) :
                                  /\ trace[i][m].stmt = "SET" /\ trace[i][m].ok
                                  /\ trace[i][m].role = role[i]
                           /\ \A m \in 1..(n - 1) :
                                  trace[i][m].stmt \notin {"COMMIT", "ROLLBACK"}
                           /\ trace[i][n].txn = "open"
                           /\ trace[i][n].as = role[i]
                           /\ trace[i][n].as # Login
               /\ mode[i] = "retrieve"
                    => /\ Events(i, {"BEGIN", "SET", "COMMIT", "ROLLBACK"}) = {}
                       /\ \A n \in Events(i, {"OP"}) : trace[i][n].as = Login

\* a 'retrieveRls' call whose SELECT ran under the requested role and was committed
C30_Witness ==
    \E i \in Invs :
        /\ caller[i] = "tool" /\ mode[i] = "retrieveRls" /\ pc[i] = "done"
        /\ toolRes[i].kind = "value"
        /\ \E n \in Events(i, {"OP"}) : trace[i][n].as = role[i]
        /\ \E n \in Events(i, {"COMMIT"}) : trace[i][n].ok

\* C31: the tool function rethrows every failure as an error whose message is
\* 'Vector search failed: ' followed by the original message, so that what the
\* recording wrapper classifies is the original error: a tool call that is over and
\* failed hands its caller the wrapped error caught by its catch block.
C31_EveryFailureRethrownWrapped ==
    \A i \in Invs :
        (caller[i] = "tool" /\ pc[i] = "done" /\ toolRes[i].kind = "error")
            => toolRes[i].wrapped /\ toolRes[i].v = err[i]

\* C33: in the agent tool function, when the search query is empty, or the
\* embedding call fails, or it returns something that is not an array, the
\* invocation fails without issuing any SQL statement on the connection: no BEGIN,
\* no SELECT, no custom query, and no other statement of executeWithRole.
C33_NoSqlWithoutEmbedding ==
    \A i \in Invs :
        (caller[i] = "tool" /\ err[i] \in {"eQueryMissing", "eEmbed", "eNotArray"})
            => /\ Events(i, EwrStatements) = {}
               /\ pc[i] \in {"t_catch", "t_finally", "done"}
               /\ pc[i] = "done" => toolRes[i].kind = "error"

\* a call whose embedding was not an array is over without any SQL statement
C33_Witness ==
    \E i \in Invs :
        /\ caller[i] = "tool" /\ pc[i] = "done" /\ err[i] = "eNotArray"
        /\ toolRes[i] = [kind |-> "error", v |-> "eNotArray", wrapped |-> TRUE]
        /\ Events(i, {"EMBED"}) # {}
        /\ Events(i, EwrStatements) = {}

\* C34: every error raised by quoteIdentifier, for a simple identifier and for an
\* invalid part of a schema-qualified one, is classified Critical by
\* isCriticalError, also behind the tool's 'Vector search failed: ' prefix, and
\* every invalid table or column name raises that error, so that an invalid name
\* always halts the workflow.
C34_InvalidIdentifierAlwaysCritical ==
    LET \* `Invalid identifier: ${value}` / `Invalid identifier part: ${part} in ${value}`
        Message ==
            IF \E k \in 1..Len(qvalue) : qvalue[k] = "."
            THEN <<"I","n","v","a","l","i","d"," ","i","d","e","n","t","i","f","i","e","r",
                   " ","p","a","r","t",":"," ">> \o qresult.val \o <<" ","i","n"," ">> \o qvalue
            ELSE <<"I","n","v","a","l","i","d"," ","i","d","e","n","t","i","f","i","e","r",
                   ":"," ">> \o qvalue
        Wrapped ==
            <<"V","e","c","t","o","r"," ","s","e","a","r","c","h"," ","f","a","i","l","e","d",
              ":"," ">> \o Message
    IN  qresult # NotCalled
            => /\ ~qresult.ok => isCriticalError(Message) /\ isCriticalError(Wrapped)
               /\ ~OneOrTwoNames(qvalue) => ~qresult.ok

(***************************************************************************)
(* Properties of the recording wrapper                                     *)
(***************************************************************************)
OutputsOf(idx) == {n \in 1..Len(outputs) : outputs[n].index = idx}

\* C9: once the input of a wrapped call is registered, the finished call has
\* produced exactly one output record under its index, whether the function
\* returned or threw, or a registration or logging step threw after it returned.
C9_ExactlyOneTerminalRecord ==
    (wpc = "done" /\ windex # NoIndex) => Cardinality(OutputsOf(windex)) = 1


\* C32: in the recording wrapper the input is registered before the wrapped
\* function is started; every output record is registered under the index that
\* the input registration of the same call returned; once the input is registered,
\* the terminal record is registered before the result or error reaches the
\* caller; on success the wrapper returns exactly what the wrapped function returned.
C32_RecordedBeforeOutcomeReachesCaller ==
    /\ (wpc = "func" \/ wresp.kind # "none")
          => windex # NoIndex /\ \E m \in 1..Len(inputs) : inputs[m].index = windex
    /\ \A n \in 1..Len(outputs) : \E m \in 1..Len(inputs) : inputs[m].index = outputs[n].index
    /\ (wpc = "done" /\ windex # NoIndex /\ wres.kind # "none") => OutputsOf(windex) # {}
    /\ (wpc = "done" /\ wres.kind = "value") => wres = wresp

====
